---- MODULE Spec2Model ----
(***************************************************************************)
(* State-machine model of the article analysis pipeline:                   *)
(*   - ContentValidator          (src/src/utils/validators.py)             *)
(*   - ContentExtractor          (src/src/extraction/content_extractor.py, *)
(*                                the class defined at lines 33-367)       *)
(*   - MetadataExtractor         (src/src/extraction/metadata_extractor.py)*)
(*   - WebScraper                (src/src/core/scraper.py)                 *)
(*   - GeminiAnalyzer            (src/src/core/analyzer.py)                *)
(*   - AnalysisOrchestrator      (src/src/core/orchestrator.py)            *)
(*                                                                         *)
(* The extractor, scraper and orchestrator are module-level singletons, so *)
(* the fields last_title / last_author / last_date of the extractor are    *)
(* shared by every request.  Requests are asyncio coroutines on one event  *)
(* loop: `running` names the coroutine that holds the loop; it is released *)
(* only where the code awaits network I/O or asyncio.sleep.                *)
(***************************************************************************)
EXTENDS Integers, Sequences, FiniteSets, TLC

Requests == {"r1", "r2"}
NoReq == "-"

---------------------------------------------------------------------------
(* Values of the optional string fields title / author / publish_date.     *)
(* A value found on a page is tagged with the request whose URL was read   *)
(* and with the component that read it.                                    *)

None == [req |-> NoReq, by |-> "None"]
Empty == [req |-> NoReq, by |-> "Empty"]
Found(r, m) == [req |-> r, by |-> m]
Falsy(v) == v = None \/ v = Empty

---------------------------------------------------------------------------
(* Texts, abstracted to what the validator reads: the length, the number   *)
(* of "\n\n" and "\n \n" substrings, of "." and of "!"/"?" characters,     *)
(* whether a not-an-article phrase occurs and whether langdetect answers   *)
(* "en".                                                                   *)

Lens == {0, 100, 101, 499, 500, 1000, 12000}
BreakCounts == {0, 2, 3, 9, 10}
SpacedBreakCounts == {0, 1}
DotCounts == {0, 4, 5, 150}
MarkCounts == {0, 2}

\* three reference texts: the smallest text the gate accepts, a text whose
\* score is exactly the 0.3 threshold, and a long well-structured article
SmallestArticle ==
  [len |-> 500, nn |-> 3, nsn |-> 0, dots |-> 5, marks |-> 0, nonart |-> FALSE, en |-> TRUE]
ThresholdArticle ==
  [len |-> 1000, nn |-> 9, nsn |-> 0, dots |-> 5, marks |-> 0, nonart |-> FALSE, en |-> FALSE]
LongArticle ==
  [len |-> 12000, nn |-> 10, nsn |-> 1, dots |-> 150, marks |-> 2, nonart |-> FALSE, en |-> TRUE]

PlainText ==
  [len |-> 1000, nn |-> 0, nsn |-> 0, dots |-> 0, marks |-> 0, nonart |-> FALSE, en |-> TRUE]

EmptyText ==
  [len |-> 0, nn |-> 0, nsn |-> 0, dots |-> 0, marks |-> 0, nonart |-> FALSE, en |-> FALSE]

\* the texts that differ from b in at most one feature
Variants(b) ==
  {b} \cup {[b EXCEPT !.len = x] : x \in Lens}
      \cup {[b EXCEPT !.nn = x] : x \in BreakCounts}
      \cup {[b EXCEPT !.nsn = x] : x \in SpacedBreakCounts}
      \cup {[b EXCEPT !.dots = x] : x \in DotCounts}
      \cup {[b EXCEPT !.marks = x] : x \in MarkCounts}
      \cup {[b EXCEPT !.nonart = x] : x \in BOOLEAN}
      \cup {[b EXCEPT !.en = x] : x \in BOOLEAN}

\* a text holds the characters it is said to hold
WellFormedText(t) ==
  /\ 2 * t.nn + 3 * t.nsn + t.dots + t.marks <= t.len
  /\ t.nonart => t.len >= 7
  /\ t.en => t.len > 0

\* the texts a page can yield: the empty string and every text one feature
\* away from a reference text or from a text without line breaks or full stops
Texts ==
  {t \in UNION {Variants(b) : b \in {SmallestArticle, ThresholdArticle, LongArticle, PlainText}} :
      WellFormedText(t)}
  \cup {EmptyText}

\* the texts as they are, line breaks included
Uncollapsed(T) == T

\* re.sub(r'\s+', ' ', content): no line break survives
Collapsed(T) == {t \in T : t.nn = 0 /\ t.nsn = 0}

---------------------------------------------------------------------------
(* ContentValidator.  Scores are in units of 1/100000.                     *)

MIN_CONTENT_LENGTH == 500
MIN_PARAGRAPHS == 3
MIN_SENTENCES == 5
OneScore == 100000
MinQuality == 30000

Min(a, b) == IF a <= b THEN a ELSE b
Max(a, b) == IF a >= b THEN a ELSE b

is_article_content(t) ==
  IF t.len = 0 \/ t.len < MIN_CONTENT_LENGTH
    THEN FALSE
    ELSE LET has_paragraphs == t.nn >= MIN_PARAGRAPHS
             has_sentences == t.dots >= MIN_SENTENCES
         IN has_paragraphs /\ has_sentences /\ ~t.nonart

calculate_content_quality(t, long_title) ==
  IF t.len = 0 THEN 0
  ELSE LET lengthPart == IF t.len >= MIN_CONTENT_LENGTH
                           THEN Min(30000, 3 * t.len) ELSE 0
           paragraphs == t.nn + t.nsn
           structPart == IF paragraphs >= MIN_PARAGRAPHS
                           THEN Min(30000, 3000 * paragraphs) ELSE 0
           sentences == t.dots + t.marks
           s == Max(sentences, 1)
           sentPart == IF 10 * s <= t.len /\ t.len <= 100 * s THEN 20000 ELSE 0
           titlePart == IF long_title THEN 10000 ELSE 0
           langPart == IF t.en THEN 10000 ELSE 0
       IN Min(OneScore, lengthPart + structPart + sentPart + titlePart + langPart)

detect_language(t) == IF t.en THEN "en" ELSE "other"

\* re.sub(r'\s+', ' ', content): every "\n\n" becomes one space and every
\* "\n \n" too, so no paragraph break is left in the cleaned text
clean_content(t) ==
  IF t.len = 0 THEN t
  ELSE [t EXCEPT !.len = t.len - t.nn - 2 * t.nsn, !.nn = 0, !.nsn = 0]

\* the gate without its quality threshold
validate_without_threshold(t) ==
  IF t.len = 0
    THEN [is_valid |-> FALSE, reason |-> "No content extracted", quality_score |-> 0]
  ELSE IF ~is_article_content(t)
    THEN [is_valid |-> FALSE, reason |-> "Content does not appear to be an article",
          quality_score |-> 0]
  ELSE [is_valid |-> TRUE, reason |-> "Valid article content extracted",
        quality_score |-> calculate_content_quality(t, FALSE)]

validate_extraction_result(t) ==
  IF t.len = 0
    THEN [is_valid |-> FALSE, reason |-> "No content extracted", quality_score |-> 0]
  ELSE IF ~is_article_content(t)
    THEN [is_valid |-> FALSE, reason |-> "Content does not appear to be an article",
          quality_score |-> 0]
  ELSE LET quality_score == calculate_content_quality(t, FALSE)
       IN IF quality_score < MinQuality
            THEN [is_valid |-> FALSE, reason |-> "Content quality too low",
                  quality_score |-> quality_score]
            ELSE [is_valid |-> TRUE, reason |-> "Valid article content extracted",
                  quality_score |-> quality_score]

---------------------------------------------------------------------------
(* ContentExtractor: the strategy list and what each strategy can return.  *)

\* the list had readability been appended after the fallbacks instead of
\* inserted at index 2
ExtractorsAppended(doc, sel) ==
  LET base == <<"trafilatura", "newspaper3k", "beautifulsoup", "simple_requests">>
      withDoc == IF doc THEN Append(base, "readability") ELSE base
  IN IF sel THEN Append(withDoc, "selenium") ELSE withDoc

\* extractors.insert(2, readability) when Document, append selenium when available
Extractors(doc, sel) ==
  LET base == <<"trafilatura", "newspaper3k", "beautifulsoup", "simple_requests">>
      withDoc == IF doc
                   THEN <<base[1], base[2], "readability", base[3], base[4]>>
                   ELSE base
  IN IF sel THEN Append(withDoc, "selenium") ELSE withDoc

\* strategies that await network I/O (or asyncio.sleep) before returning;
\* newspaper3k downloads with blocking calls and never yields the event loop
Suspending == {"trafilatura", "readability", "beautifulsoup", "simple_requests", "selenium"}

\* the side channel: what strategy m leaves in (last_title, last_author, last_date)
SideChannel(m, o, cur) ==
  IF o.kind # "text" THEN cur
  ELSE CASE m = "newspaper3k" -> <<o.title, o.author, o.date>>
         [] m = "beautifulsoup" ->
              IF Falsy(cur[1]) /\ o.title # None THEN <<o.title, cur[2], cur[3]>> ELSE cur
         [] m = "selenium" ->
              IF Falsy(cur[1]) THEN <<o.title, cur[2], cur[3]>> ELSE cur
         [] OTHER -> cur

NoArticle ==
  [url |-> NoReq, title |-> None,
   content |-> [req |-> NoReq, by |-> "-", text |-> EmptyText], author |-> None,
   publish_date |-> None, domain |-> NoReq, language |-> "-",
   quality_score |-> 0, extraction_method |-> "-"]

ArticleContent(r, m, t, quality_score, meta) ==
  [url |-> r, title |-> meta[1],
   content |-> [req |-> r, by |-> m, text |-> clean_content(t)], author |-> meta[2],
   publish_date |-> meta[3], domain |-> r, language |-> detect_language(t),
   quality_score |-> quality_score, extraction_method |-> m]

NoGate == EmptyText
NoExc == [type |-> "-", what |-> "-", last_error |-> "-"]

---------------------------------------------------------------------------
(* The findings the pipeline carries: pydantic models as records           *)

Claim(text, quality, verifiable, confidence) ==
  [claim |-> text, evidence_quality |-> quality, verifiable |-> verifiable,
   confidence |-> confidence]

RedFlag(type, description, severity, confidence) ==
  [type |-> type, description |-> description, severity |-> severity,
   confidence |-> confidence]

LanguageAnalysis(tone, bias_indicators, loaded_language, emotional_words, techniques) ==
  [tone |-> tone, bias_indicators |-> bias_indicators,
   loaded_language |-> loaded_language, emotional_words |-> emotional_words,
   persuasive_techniques |-> techniques]

Entity(text, label) == [text |-> text, label |-> label]

NoLanguage == LanguageAnalysis("neutral", <<>>, <<>>, <<>>, <<>>)

\* the JSON object of the provider's answer (analysis_data)
AnalysisData(core_claims, language_analysis, red_flags, questions, bias, credibility) ==
  [core_claims |-> core_claims, language_analysis |-> language_analysis,
   red_flags |-> red_flags, verification_questions |-> questions,
   bias_confidence |-> bias, overall_credibility |-> credibility]

NoData == AnalysisData(<<>>, NoLanguage, <<>>, <<>>, 0, 0)

\* the locals traditional_claims, traditional_language_analysis,
\* traditional_red_flags, entities of analyze_article
Traditional(claims, language_analysis, red_flags, entities) ==
  [claims |-> claims, language_analysis |-> language_analysis,
   red_flags |-> red_flags, entities |-> entities]

NoTraditional == Traditional(<<>>, NoLanguage, <<>>, <<>>)

\* the locals all_claims, all_red_flags, final_language_analysis,
\* verification_questions of analyze_article
Merged(core_claims, red_flags, language_analysis, verification_questions) ==
  [core_claims |-> core_claims, red_flags |-> red_flags,
   language_analysis |-> language_analysis,
   verification_questions |-> verification_questions]

NoMerged == Merged(<<>>, <<>>, NoLanguage, <<>>)

\* what the content says to the question generator: 'study' or 'research',
\* a historical word, a comparative word occurs in it
Cues == [study : BOOLEAN, historical : BOOLEAN, comparative : BOOLEAN]

---------------------------------------------------------------------------
VARIABLES
  Document,            \* readability could be imported
  SELENIUM_AVAILABLE,  \* selenium could be imported
  last_title, last_author, last_date,   \* ContentExtractor._last_*
  running,             \* the coroutine holding the event loop, or NoReq
  entry,               \* the operation each request called
  valid_url,           \* validators.url(url) is True
  corpus,              \* the texts the pages of this run can yield
  faults,              \* the ways a strategy of this run can fail
  pc,                  \* where each request's coroutine stands
  idx,                 \* position in the extractors list
  last_error,          \* extract_content's local last_error
  article,             \* the ArticleContent the request holds
  exc,                 \* the exception extract_content raised
  invoked,             \* history: strategies invoked, in order
  active,              \* history: strategies invoked and not yet returned
  passed,              \* history: strategies whose text passed the gate
  final_attempt,       \* history: how the last strategy of an exhausted chain ended
  gate,                \* history: the strategy text the returned article was built from
  opts,                \* AnalysisRequest.include_* flags
  heuristics,          \* what the heuristic passes of this run can find
  responses,           \* the JSON objects the AI provider of this run can answer
  now,                 \* time.time()
  start_time,          \* analyze_article's local start_time
  ai_attempt,          \* _generate_with_retry's loop variable
  ai_data,             \* the analysis_data parsed from the provider's answer
  generation,          \* the generate_content calls made: how many, how the last
                       \* one ended, the content length in the prompt
  traditional,         \* the findings of the heuristic passes
  analysis,            \* the reconciled findings and the questions
  done,                \* history: pipeline steps completed, as a set
  response             \* the AnalysisResponse returned to the caller

extractorVars == <<last_title, last_author, last_date>>
envVars == <<Document, SELENIUM_AVAILABLE, entry, valid_url, corpus, faults, opts,
             heuristics, responses>>
histVars == <<invoked, active, passed, final_attempt, gate>>
pipeVars == <<now, start_time, ai_attempt, ai_data, generation, traditional, analysis,
              done, response>>
vars == <<envVars, extractorVars, running, pc, idx, last_error, article, exc, histVars,
          pipeVars>>

Methods(r) == Extractors(Document, SELENIUM_AVAILABLE)

\* what each strategy can hand back: a failure of this run or a text of
\* this run's pages
Outcome(k, t, ti, au, da) ==
  [kind |-> k, text |-> t, title |-> ti, author |-> au, date |-> da]

\* kind "exception": caught by the strategy's own handler, which returns None
\* kind "none":      an explicit `return None` (non-200 response, too little text)
\* kind "text":      the strategy returned a string (possibly empty)
\* kind "escaped":   an exception that leaves the strategy coroutine
Failures == {Outcome(k, EmptyText, None, None, None) : k \in faults}

_extract_with_trafilatura(r) ==
  Failures \cup {Outcome("text", t, None, None, None) : t \in {x \in corpus : x.len > 100}}

_extract_with_newspaper(r) ==
  {o \in Failures : o.kind # "none"} \cup
  {Outcome("text", t, ti, au, da) :
     t \in corpus, ti \in {Empty, Found(r, "newspaper3k")},
     au \in {None, Found(r, "newspaper3k")}, da \in {None, Found(r, "newspaper3k")}}

_extract_with_readability(r) ==
  Failures \cup {Outcome("text", t, None, None, None) : t \in corpus}

\* title: the <title> tag is absent (None), blank (Empty) or has text
_extract_with_beautifulsoup(r) ==
  Failures \cup
  {Outcome("text", t, ti, None, None) :
     t \in Collapsed(corpus), ti \in {None, Empty, Found(r, "beautifulsoup")}}

_extract_with_simple_requests(r) ==
  Failures \cup
  {Outcome("text", t, None, None, None) : t \in {x \in Collapsed(corpus) : x.len > 200}}

\* title: what get_attribute("text") of the <title> element gave
_extract_with_selenium(r) ==
  Failures \cup
  {Outcome("text", t, ti, None, None) :
     t \in corpus, ti \in {None, Empty, Found(r, "selenium")}}

StrategyOutcomes(r, m) ==
  CASE m = "trafilatura" -> _extract_with_trafilatura(r)
    [] m = "newspaper3k" -> _extract_with_newspaper(r)
    [] m = "readability" -> _extract_with_readability(r)
    [] m = "beautifulsoup" -> _extract_with_beautifulsoup(r)
    [] m = "simple_requests" -> _extract_with_simple_requests(r)
    [] m = "selenium" -> _extract_with_selenium(r)
CanRun(r) == running \in {NoReq, r}

\* where a request goes when extract_content returns / raises
AfterReturn(r) == IF entry[r] = "extract_content" THEN "returned" ELSE "sc_enrich"
AfterRaise(r) == IF entry[r] = "extract_content" THEN "raised" ELSE "an_except"
Released(r, p) == IF p \in {"returned", "raised"} THEN NoReq ELSE r

\* the clock is cut off here
MaxClock == 1

TypeOK ==
  /\ Document \in BOOLEAN /\ SELENIUM_AVAILABLE \in BOOLEAN
  /\ running \in Requests \cup {NoReq}
  /\ \A r \in Requests : idx[r] \in 0..6

NoTime == 0 - 1
\* counter_narrative = None
NoNarrative == [present |-> FALSE, opposing_viewpoint |-> ""]
NoResult ==
  [article |-> NoArticle, core_claims |-> <<>>, language_analysis |-> NoLanguage,
   red_flags |-> <<>>, verification_questions |-> <<>>, entities |-> <<>>,
   source_metrics |-> FALSE, counter_narrative |-> NoNarrative,
   bias_confidence |-> 0, overall_credibility |-> 0]
NoError == [text |-> "", cause |-> NoExc]
NoGeneration == [calls |-> 0, text |-> "-", prompt |-> 0]
NoResponse ==
  [sent |-> FALSE, success |-> FALSE, result |-> NoResult, markdown_report |-> "None",
   error |-> NoError, processing_time |-> NoTime]

InitCommon ==
  /\ now \in 0..MaxClock
  /\ start_time = [r \in Requests |-> 0]
  /\ ai_attempt = [r \in Requests |-> 0]
  /\ generation = [r \in Requests |-> NoGeneration]
  /\ done = [r \in Requests |-> {}]
  /\ response = [r \in Requests |-> NoResponse]
  /\ last_title = None /\ last_author = None /\ last_date = None
  /\ running = NoReq
  /\ idx = [r \in Requests |-> 0]
  /\ last_error = [r \in Requests |-> "None"]
  /\ article = [r \in Requests |-> NoArticle]
  /\ exc = [r \in Requests |-> NoExc]
  /\ invoked = [r \in Requests |-> <<>>]
  /\ active = [r \in Requests |-> {}]
  /\ passed = [r \in Requests |-> {}]
  /\ final_attempt = [r \in Requests |-> [method |-> "-", kind |-> "-"]]
  /\ gate = [r \in Requests |-> NoGate]

\* extract_content, lines 45-74: URL check, metadata reset, the list is built
ExtractStart(r) ==
  /\ pc[r] = "ex_start" /\ CanRun(r)
  /\ IF ~valid_url[r]
       THEN /\ exc' = [exc EXCEPT ![r] =
                         [type |-> "ValueError", what |-> "invalid_url", last_error |-> "-"]]
            /\ pc' = [pc EXCEPT ![r] = AfterRaise(r)]
            /\ running' = Released(r, AfterRaise(r))
            /\ UNCHANGED <<extractorVars, idx, last_error>>
       ELSE /\ last_title' = None /\ last_author' = None /\ last_date' = None
            /\ idx' = [idx EXCEPT ![r] = 1]
            /\ last_error' = [last_error EXCEPT ![r] = "None"]
            /\ pc' = [pc EXCEPT ![r] = "ex_loop"]
            /\ running' = r
            /\ UNCHANGED exc
  /\ UNCHANGED <<envVars, article, histVars, pipeVars>>

\* lines 76-79: the next strategy is called and awaited
InvokeStrategy(r) ==
  /\ pc[r] = "ex_loop" /\ CanRun(r)
  /\ LET m == Methods(r)[idx[r]] IN
       /\ invoked' = [invoked EXCEPT ![r] = Append(@, m)]
       /\ active' = [active EXCEPT ![r] = @ \cup {m}]
       /\ IF m \in Suspending
            THEN pc' = [pc EXCEPT ![r] = "ex_await"] /\ running' = NoReq
            ELSE pc' = [pc EXCEPT ![r] = "ex_run"] /\ running' = r
  /\ UNCHANGED <<envVars, extractorVars, idx, last_error, article, exc,
                 passed, final_attempt, gate, pipeVars>>

\* what one pass through the loop body does once the strategy has ended with o
Accepted(o) ==
  /\ o.kind = "text"
  /\ o.text.len > 100
  /\ validate_extraction_result(o.text).is_valid

AttemptKind(o) ==
  CASE o.kind # "text" -> o.kind
    [] o.text.len <= 100 -> "short"
    [] ~validate_extraction_result(o.text).is_valid -> "rejected"
    [] OTHER -> "valid"

\* the handler at lines 103-106
NextLastError(cur, m, o) == IF o.kind = "escaped" THEN m ELSE cur

\* the propagating variant of the loop: an exception that reaches the loop
\* body ends the call at once
LoopStepUnguarded(o, i, n) ==
  IF Accepted(o) THEN "return"
  ELSE IF o.kind = "escaped" THEN "raise"
  ELSE IF i < n THEN "continue" ELSE "raise"

\* lines 75-109: what the loop does with the outcome o of strategy i of n
LoopStep(o, i, n) ==
  IF Accepted(o) THEN "return"
  ELSE IF i < n THEN "continue" ELSE "raise"

\* lines 79-109: the strategy ends, its text is gated, and the call returns,
\* moves on to the next strategy, or raises after the last one
CompleteStrategy(r) ==
  /\ pc[r] \in {"ex_await", "ex_run"} /\ CanRun(r)
  /\ LET m == Methods(r)[idx[r]] IN
     \E o \in StrategyOutcomes(r, m) :
       LET meta == SideChannel(m, o, <<last_title, last_author, last_date>>)
           v == validate_extraction_result(o.text)
           le == NextLastError(last_error[r], m, o)
           step == LoopStep(o, idx[r], Len(Methods(r)))
       IN
       /\ last_title' = meta[1] /\ last_author' = meta[2] /\ last_date' = meta[3]
       /\ active' = [active EXCEPT ![r] = @ \ {m}]
       /\ IF step = "return"
            THEN /\ article' = [article EXCEPT ![r] =
                                  ArticleContent(r, m, o.text, v.quality_score, meta)]
                 /\ gate' = [gate EXCEPT ![r] = o.text]
                 /\ passed' = [passed EXCEPT ![r] = @ \cup {m}]
                 /\ done' = [done EXCEPT ![r] = @ \cup {"extraction"}]
                 /\ pc' = [pc EXCEPT ![r] = AfterReturn(r)]
                 /\ running' = Released(r, AfterReturn(r))
                 /\ idx' = [idx EXCEPT ![r] = 0]
                 /\ last_error' = [last_error EXCEPT ![r] = "None"]
                 /\ UNCHANGED <<exc, final_attempt>>
            ELSE IF step = "continue"
              THEN /\ idx' = [idx EXCEPT ![r] = @ + 1]
                   /\ last_error' = [last_error EXCEPT ![r] = le]
                   /\ pc' = [pc EXCEPT ![r] = "ex_loop"]
                   /\ running' = r
                   /\ UNCHANGED <<article, exc, gate, passed, final_attempt, done>>
              ELSE /\ exc' = [exc EXCEPT ![r] =
                                [type |-> "Exception", what |-> "all_failed",
                                 last_error |-> le]]
                   /\ final_attempt' = [final_attempt EXCEPT ![r] =
                                          [method |-> m, kind |-> AttemptKind(o)]]
                   /\ pc' = [pc EXCEPT ![r] = AfterRaise(r)]
                   /\ running' = Released(r, AfterRaise(r))
                   /\ idx' = [idx EXCEPT ![r] = 0]
                   /\ last_error' = [last_error EXCEPT ![r] = "None"]
                   /\ UNCHANGED <<article, gate, passed, done>>
  /\ UNCHANGED <<envVars, invoked, now, start_time, ai_attempt, ai_data,
                 generation, traditional, analysis, response>>

---------------------------------------------------------------------------
(* WebScraper.scrape_article and MetadataExtractor.extract_article_metadata *)

Raise(r, t, w) ==
  exc' = [exc EXCEPT ![r] = [type |-> t, what |-> w, last_error |-> "-"]]

\* analyze_article lines 39-46 and scrape_article lines 24-31
AnalyzeStart(r) ==
  /\ pc[r] = "an_start" /\ CanRun(r)
  /\ start_time' = [start_time EXCEPT ![r] = now]
  /\ running' = r
  /\ IF ~valid_url[r]
       THEN Raise(r, "ValueError", "invalid_url") /\ pc' = [pc EXCEPT ![r] = "an_except"]
       ELSE UNCHANGED exc /\ pc' = [pc EXCEPT ![r] = "ex_start"]
  /\ UNCHANGED <<envVars, extractorVars, idx, last_error, article, histVars,
                 now, ai_attempt, ai_data,
                 generation, traditional, analysis, done, response>>

\* scrape_article line 34: is a second look at the page needed
ScrapeCheck(r) ==
  /\ pc[r] = "sc_enrich" /\ CanRun(r)
  /\ IF Falsy(article[r].title) \/ Falsy(article[r].author)
       THEN pc' = [pc EXCEPT ![r] = "md_await"] /\ running' = NoReq
       ELSE pc' = [pc EXCEPT ![r] = "an_entities"] /\ running' = r
  /\ UNCHANGED <<envVars, extractorVars, idx, last_error, article, exc, histVars, pipeVars>>

\* what extract_article_metadata can hand back (lines 200-229): the defaults
\* when the fetch fails or the response is not 200, else the parsed tags;
\* "parse_error" is an exception raised by _parse_html_metadata, which no
\* handler of extract_article_metadata covers
MetadataValues(r) == {None, Empty, Found(r, "metadata")}
extract_article_metadata(r) ==
  {[kind |-> k, title |-> None, author |-> None, publication_date |-> None] :
      k \in {"fetch_error", "non200", "parse_error"}}
  \cup
  {[kind |-> "parsed", title |-> ti, author |-> au, publication_date |-> da] :
      ti \in MetadataValues(r), au \in MetadataValues(r), da \in MetadataValues(r)}

\* enrichment that lets the second parse win over what extraction found
EnrichOverwriting(a, md) ==
  [a EXCEPT
     !.title = IF ~Falsy(md.title) THEN md.title ELSE @,
     !.author = IF ~Falsy(md.author) THEN md.author ELSE @,
     !.publish_date = IF ~Falsy(md.publication_date) THEN md.publication_date ELSE @]

\* scrape_article lines 39-46
Enrich(a, md) ==
  [a EXCEPT
     !.title = IF Falsy(a.title) /\ ~Falsy(md.title) THEN md.title ELSE @,
     !.author = IF Falsy(a.author) /\ ~Falsy(md.author) THEN md.author ELSE @,
     !.publish_date = IF Falsy(a.publish_date) /\ ~Falsy(md.publication_date)
                        THEN md.publication_date ELSE @]

\* scrape_article lines 36-53 once the metadata fetch has ended
MetadataFetched(r) ==
  /\ pc[r] = "md_await" /\ CanRun(r)
  /\ running' = r
  /\ \E md \in extract_article_metadata(r) :
       IF md.kind = "parse_error"
         THEN /\ Raise(r, "Exception", "metadata_parse")
              /\ pc' = [pc EXCEPT ![r] = "an_except"]
              /\ UNCHANGED <<article, done>>
         ELSE /\ article' = [article EXCEPT ![r] = Enrich(@, md)]
              /\ done' = [done EXCEPT ![r] = @ \cup {"enrichment"}]
              /\ pc' = [pc EXCEPT ![r] = "an_entities"]
              /\ UNCHANGED exc
  /\ UNCHANGED <<envVars, extractorVars, idx, last_error, histVars,
                 now, start_time, ai_attempt, ai_data,
                 generation, traditional, analysis, response>>

---------------------------------------------------------------------------
(* Reconciliation of the heuristic and the AI findings                     *)
(* (AnalysisOrchestrator._merge_claims, _merge_red_flags,                  *)
(* _merge_language_analysis).  A text is the sequence of its               *)
(* whitespace-separated tokens; confidences are in units of 1/100.         *)

\* str.lower() on one token
Lower(tok) ==
  CASE tok = "A" -> "a"
    [] tok = "B" -> "b"
    [] tok = "Senate" -> "senate"
    [] tok = "Acme" -> "acme"
    [] tok = "No" -> "no"
    [] OTHER -> tok

\* ' '.join(text.lower().split()).split(): the tokens, lower-cased
Simplified(text) == [i \in 1..Len(text) |-> Lower(text[i])]
WordSet(text) == {Simplified(text)[i] : i \in 1..Len(text)}

\* Python evaluates an argument once, before the call: F is applied to the
\* value
Bind(value, F(_)) == CHOOSE y \in {F(x) : x \in {value}} : TRUE

\* sorted(items, key=..., reverse=True): stable, so items of equal key keep
\* the order they had; pairs are <<key, item>>
RECURSIVE InsertByKey(_, _)
InsertByKey(sorted, p) ==
  IF sorted = <<>> THEN <<p>>
  ELSE IF Head(sorted)[1] >= p[1]
         THEN <<Head(sorted)>> \o InsertByKey(Tail(sorted), p)
         ELSE <<p>> \o sorted

RECURSIVE SortPairs(_, _)
SortPairs(pairs, acc) ==
  IF pairs = <<>> THEN acc
  ELSE Bind(InsertByKey(acc, Head(pairs)), LAMBDA next : SortPairs(Tail(pairs), next))

Seconds(sorted_pairs) == [i \in 1..Len(sorted_pairs) |-> sorted_pairs[i][2]]

SortedDesc(pairs) ==
  Bind(pairs, LAMBDA ps : Bind(SortPairs(ps, <<>>), LAMBDA r : Seconds(r)))

\* items[:n]
Take(items, n) == Bind(items, LAMBDA s : SubSeq(s, 1, Min(n, Len(s))))

MaxClaims == 8
MaxRedFlags == 10

\* the similarity test with the bound included (>= 0.6)
_claims_similar_inclusive(claim1, claim2) ==
  LET words1 == {claim1[i] : i \in 1..Len(claim1)}
      words2 == {claim2[i] : i \in 1..Len(claim2)}
      intersection == Cardinality(words1 \cap words2)
      union == Cardinality(words1 \cup words2)
  IN union > 0 /\ 10 * intersection >= 6 * union

\* orchestrator._claims_similar: intersection / union > 0.6, and 0 when both
\* word sets are empty
_claims_similar(claim1, claim2) ==
  LET words1 == {claim1[i] : i \in 1..Len(claim1)}
      words2 == {claim2[i] : i \in 1..Len(claim2)}
      intersection == Cardinality(words1 \cap words2)
      union == Cardinality(words1 \cup words2)
  IN union > 0 /\ 10 * intersection > 6 * union

\* the loop with seen_claims.add(simplified) done for every claim, kept or
\* not
RECURSIVE UniqueAmongSeen(_, _, _)
UniqueAmongSeen(all_claims, unique_claims, seen_claims) ==
  IF all_claims = <<>> THEN unique_claims
  ELSE LET claim == Head(all_claims)
           simplified == Simplified(claim.claim)
           is_duplicate == \E seen \in seen_claims : _claims_similar(simplified, seen)
       IN Bind(IF is_duplicate THEN unique_claims ELSE Append(unique_claims, claim),
               LAMBDA kept :
                 UniqueAmongSeen(Tail(all_claims), kept, seen_claims \cup {simplified}))

UniqueClaimsSeenAll(all_claims, unique_claims) ==
  UniqueAmongSeen(all_claims, unique_claims,
                  {Simplified(unique_claims[k].claim) : k \in 1..Len(unique_claims)})

\* the loop of _merge_claims, lines 179-188
RECURSIVE UniqueClaims(_, _)
UniqueClaims(all_claims, unique_claims) ==
  IF all_claims = <<>> THEN unique_claims
  ELSE LET claim == Head(all_claims)
           simplified == Simplified(claim.claim)
           is_duplicate ==
             \E k \in 1..Len(unique_claims) :
               _claims_similar(simplified, Simplified(unique_claims[k].claim))
       IN Bind(IF is_duplicate THEN unique_claims ELSE Append(unique_claims, claim),
               LAMBDA kept : UniqueClaims(Tail(all_claims), kept))

_merge_claims(traditional_claims, ai_claims) ==
  Bind(UniqueClaims(traditional_claims \o ai_claims, <<>>),
       LAMBDA unique_claims :
         Take(SortedDesc([i \in 1..Len(unique_claims) |->
                            <<unique_claims[i].confidence, unique_claims[i]>>]),
              MaxClaims))

\* severity_order.get(x.severity.value, 0)
severity_order(sev) ==
  CASE sev = "high" -> 3
    [] sev = "medium" -> 2
    [] sev = "low" -> 1
    [] OTHER -> 0

\* the sort key (severity rank, confidence), confidence being at most 100
FlagKey(flag) == 1000 * severity_order(flag.severity) + flag.confidence

\* the loop of _merge_red_flags, lines 199-203
RECURSIVE UniqueFlags(_, _)
UniqueFlags(all_flags, unique_flags) ==
  IF all_flags = <<>> THEN unique_flags
  ELSE LET flag == Head(all_flags)
           simplified_desc == Simplified(flag.description)
           seen == \E k \in 1..Len(unique_flags) :
                     Simplified(unique_flags[k].description) = simplified_desc
       IN Bind(IF seen THEN unique_flags ELSE Append(unique_flags, flag),
               LAMBDA kept : UniqueFlags(Tail(all_flags), kept))

\* the red-flag merge sorted by confidence alone
_merge_red_flags_by_confidence(traditional_flags, ai_flags) ==
  Bind(UniqueFlags(traditional_flags \o ai_flags, <<>>),
       LAMBDA unique_flags :
         Take(SortedDesc([i \in 1..Len(unique_flags) |->
                            <<unique_flags[i].confidence, unique_flags[i]>>]),
              MaxRedFlags))

_merge_red_flags(traditional_flags, ai_flags) ==
  Bind(UniqueFlags(traditional_flags \o ai_flags, <<>>),
       LAMBDA unique_flags :
         Take(SortedDesc([i \in 1..Len(unique_flags) |->
                            <<FlagKey(unique_flags[i]), unique_flags[i]>>]),
              MaxRedFlags))

MaxIndicators == 15
MaxTechniques == 10

\* for x in traditional: if x not in merged: merged.append(x)
RECURSIVE AppendMissing(_, _)
AppendMissing(merged, items) ==
  IF items = <<>> THEN merged
  ELSE Bind(IF \E k \in 1..Len(merged) : merged[k] = Head(items)
              THEN merged ELSE Append(merged, Head(items)),
            LAMBDA next : AppendMissing(next, Tail(items)))

\* the language merge that keeps the heuristic tone
_merge_language_keep_tone(traditional_analysis, ai_analysis) ==
  [tone |-> traditional_analysis.tone,
   bias_indicators |->
     Take(AppendMissing(ai_analysis.bias_indicators,
                        traditional_analysis.bias_indicators), MaxIndicators),
   loaded_language |->
     Take(AppendMissing(ai_analysis.loaded_language,
                        traditional_analysis.loaded_language), MaxIndicators),
   emotional_words |->
     Take(AppendMissing(ai_analysis.emotional_words,
                        traditional_analysis.emotional_words), MaxIndicators),
   persuasive_techniques |->
     Take(AppendMissing(ai_analysis.persuasive_techniques,
                        traditional_analysis.persuasive_techniques), MaxTechniques)]

_merge_language_analysis(traditional_analysis, ai_analysis) ==
  [tone |-> ai_analysis.tone,
   bias_indicators |->
     Take(AppendMissing(ai_analysis.bias_indicators,
                        traditional_analysis.bias_indicators), MaxIndicators),
   loaded_language |->
     Take(AppendMissing(ai_analysis.loaded_language,
                        traditional_analysis.loaded_language), MaxIndicators),
   emotional_words |->
     Take(AppendMissing(ai_analysis.emotional_words,
                        traditional_analysis.emotional_words), MaxIndicators),
   persuasive_techniques |->
     Take(AppendMissing(ai_analysis.persuasive_techniques,
                        traditional_analysis.persuasive_techniques), MaxTechniques)]

---------------------------------------------------------------------------
(* ClaimExtractor: what the heuristic pass hands to the reconciliation     *)

\* tokens matching \d+%
Statistics == {"40%", "7%", "12%", "3%", "9%"}
\* words with a capital first letter and more than 3 letters
ProperNouns == {"Senate"}

\* re.sub(r'[^\w\s]', '', token)
StripPunctuation(tok) ==
  CASE tok = "a," -> "a"
    [] tok = "b." -> "b"
    [] tok = "40%" -> "40"
    [] tok = "7%" -> "7"
    [] tok = "12%" -> "12"
    [] tok = "3%" -> "3"
    [] tok = "9%" -> "9"
    [] OTHER -> tok

\* claim_extractor._deduplicate_claims lines 268-269
SimplifiedStripped(text) == [i \in 1..Len(text) |-> StripPunctuation(Lower(text[i]))]

\* claim_extractor._claims_similar: intersection / union > 0.7
ClaimExtractor_claims_similar(claim1, claim2) ==
  LET words1 == {claim1[i] : i \in 1..Len(claim1)}
      words2 == {claim2[i] : i \in 1..Len(claim2)}
      intersection == Cardinality(words1 \cap words2)
      union == Cardinality(words1 \cup words2)
  IN union > 0 /\ 10 * intersection > 7 * union

RECURSIVE _deduplicate_claims(_, _)
_deduplicate_claims(claims, unique_claims) ==
  IF claims = <<>> THEN unique_claims
  ELSE LET claim == Head(claims)
           simplified == SimplifiedStripped(claim.claim)
           is_duplicate ==
             \E k \in 1..Len(unique_claims) :
               ClaimExtractor_claims_similar(simplified,
                                             SimplifiedStripped(unique_claims[k].claim))
       IN Bind(IF is_duplicate THEN unique_claims ELSE Append(unique_claims, claim),
               LAMBDA kept : _deduplicate_claims(Tail(claims), kept))

\* _rank_claims.claim_score; no text of the model has more than 100 characters
claim_score(claim) ==
  claim.confidence
  + (CASE claim.evidence_quality = "strong" -> 30
       [] claim.evidence_quality = "moderate" -> 10
       [] OTHER -> 0)
  + (IF claim.verifiable THEN 20 ELSE 0)
  + (IF \E i \in 1..Len(claim.claim) : claim.claim[i] \in Statistics THEN 10 ELSE 0)

_rank_claims(claims) ==
  Bind(claims,
       LAMBDA cs : SortedDesc([i \in 1..Len(cs) |-> <<claim_score(cs[i]), cs[i]>>]))

\* extract_claims lines 67-71, from the sentences that passed lines 60-65
extract_claims(candidates) ==
  Bind(candidates,
       LAMBDA claims : Take(_rank_claims(_deduplicate_claims(claims, <<>>)), MaxClaims))

---------------------------------------------------------------------------
(* GeminiAnalyzer.parse_analysis_to_models and the pydantic models         *)

OneConfidence == 100
MaxPriority == 5

EvidenceQuality == {"strong", "moderate", "weak", "none"}
SeverityLevel == {"high", "medium", "low"}
ToneType == {"neutral", "persuasive", "emotional", "inflammatory"}
BiasType == {"source_bias", "statistical_misuse", "logical_fallacy", "selection_bias",
             "framing_bias", "emotional_manipulation"}

\* a field declared without its bounds
Unbounded(x) == TRUE

\* Field(ge=0.0, le=1.0)
UnitRange(x) == 0 <= x /\ x <= OneConfidence

\* parse_analysis_to_models lines 201-255: ok is FALSE where an enum or a
\* pydantic model rejects the data and the exception is re-raised
parse_analysis_to_models(analysis_data) ==
  [ok |->
     /\ \A i \in 1..Len(analysis_data.core_claims) :
          /\ analysis_data.core_claims[i].evidence_quality \in EvidenceQuality
          /\ UnitRange(analysis_data.core_claims[i].confidence)
     /\ analysis_data.language_analysis.tone \in ToneType
     /\ \A i \in 1..Len(analysis_data.red_flags) :
          /\ analysis_data.red_flags[i].type \in BiasType
          /\ analysis_data.red_flags[i].severity \in SeverityLevel
          /\ UnitRange(analysis_data.red_flags[i].confidence)
     /\ \A i \in 1..Len(analysis_data.verification_questions) :
          /\ 1 <= analysis_data.verification_questions[i]
          /\ analysis_data.verification_questions[i] <= MaxPriority,
   claims |-> analysis_data.core_claims,
   language_analysis |-> analysis_data.language_analysis,
   red_flags |-> analysis_data.red_flags,
   bias_confidence |-> analysis_data.bias_confidence,
   overall_credibility |-> analysis_data.overall_credibility]

---------------------------------------------------------------------------
(* VerificationQuestionGenerator.  A question's text is a template name    *)
(* and the tokens formatted into it.                                       *)

MaxQuestions == 8
TopClaims == 5
TopEntities == 10
KeyEntities == 5

HasToken(text, tok) == \E i \in 1..Len(text) : Lower(text[i]) = tok
FirstIndex(text, toks) ==
  CHOOSE i \in 1..Len(text) :
    Lower(text[i]) \in toks /\ \A j \in 1..(i - 1) : Lower(text[j]) \notin toks

Question(template, key, category, priority, tips) ==
  [question |-> <<template, key>>, category |-> category, priority |-> priority,
   research_tips |-> tips]

_extract_statistic(text) == <<text[FirstIndex(text, Statistics)]>>

_create_statistical_questions(statistic) ==
  <<Question("statistic_source", statistic, "statistical", 4, 2),
    Question("statistic_collected", statistic, "statistical", 4, 2),
    Question("statistic_period", statistic, "statistical", 3, 2),
    Question("statistic_elsewhere", statistic, "statistical", 3, 2)>>

\* no token sequence of the model matches a speaker pattern: speaker is None
_create_quote_questions(text) ==
  <<Question("quote_original", <<"the source">>, "quote", 5, 2),
    Question("quote_forum", <<"this person">>, "quote", 3, 2),
    Question("quote_clarified", <<"the speaker">>, "quote", 3, 2),
    Question("quote_context", <<>>, "quote", 3, 2)>>

\* text.lower().split('because'): parts[0] and parts[1]
_extract_cause_effect(text) ==
  LET i == FirstIndex(text, {"because"})
      rest == SubSeq(Simplified(text), i + 1, Len(text))
      cause == IF HasToken(rest, "because")
                 THEN SubSeq(rest, 1, FirstIndex(rest, {"because"}) - 1)
                 ELSE rest
  IN [effect |-> SubSeq(Simplified(text), 1, i - 1), cause |-> cause]

_create_causal_questions(text) ==
  LET ce == _extract_cause_effect(text) IN
  <<Question("causal_evidence", ce.cause \o <<"|">> \o ce.effect, "causal", 4, 2),
    Question("causal_alternatives", ce.effect, "causal", 4, 2),
    Question("causal_experts", ce.cause \o <<"|">> \o ce.effect, "causal", 3, 2),
    Question("causal_prior", <<>>, "causal", 3, 2)>>

_extract_key_subject(text) ==
  IF \E i \in 1..Len(text) : text[i] \in ProperNouns
    THEN <<Lower(text[CHOOSE i \in 1..Len(text) :
                        text[i] \in ProperNouns
                        /\ \A j \in 1..(i - 1) : text[j] \notin ProperNouns])>>
  ELSE IF HasToken(text, "policy") THEN <<"policy">>
  ELSE <<"this topic">>

_create_factual_questions(text) ==
  LET key_subject == _extract_key_subject(text) IN
  <<Question("factual_sources", key_subject, "factual", 3, 2),
    Question("factual_context", key_subject, "factual", 3, 2),
    Question("factual_differing", key_subject, "factual", 3, 2),
    Question("factual_experts", key_subject, "factual", 3, 2)>>

_generate_claim_questions(claim) ==
  IF \E i \in 1..Len(claim.claim) : claim.claim[i] \in Statistics
    THEN _create_statistical_questions(_extract_statistic(claim.claim))
  ELSE IF HasToken(claim.claim, "said") THEN _create_quote_questions(claim.claim)
  ELSE IF HasToken(claim.claim, "because") THEN _create_causal_questions(claim.claim)
  ELSE _create_factual_questions(claim.claim)

RECURSIVE ClaimQuestions(_)
ClaimQuestions(claims) ==
  IF claims = <<>> THEN <<>>
  ELSE _generate_claim_questions(Head(claims)) \o ClaimQuestions(Tail(claims))

RECURSIVE EntityQuestions(_)
EntityQuestions(key_entities) ==
  IF key_entities = <<>> THEN <<>>
  ELSE LET entity == Head(key_entities) IN
       <<IF entity.label = "ORG"
           THEN Question("entity_funding", entity.text, "source", 4, 2)
           ELSE Question("entity_credentials", entity.text, "source", 3, 2)>>
       \o EntityQuestions(Tail(key_entities))

_generate_entity_questions(entities) ==
  EntityQuestions(Take(SelectSeq(entities, LAMBDA e : e.label \in {"PERSON", "ORG"}),
                       KeyEntities))

\* cues: whether the content mentions a study or research, history, comparisons
_generate_source_questions(domain, cues) ==
  <<Question("source_stance", <<domain>>, "source", 4, 2)>>
  \o (IF cues.study THEN <<Question("methodology", <<>>, "methodology", 5, 2)>> ELSE <<>>)

_generate_context_questions(cues) ==
  (IF ~cues.historical THEN <<Question("context_history", <<>>, "context", 2, 2)>>
   ELSE <<>>)
  \o (IF ~cues.comparative THEN <<Question("context_compare", <<>>, "context", 2, 2)>>
      ELSE <<>>)

\* ' '.join(question.question.lower().split())
NormalizedQuestion(q) == <<q.question[1], Simplified(q.question[2])>>

RECURSIVE _deduplicate_questions(_, _)
_deduplicate_questions(questions, unique_questions) ==
  IF questions = <<>> THEN unique_questions
  ELSE LET q == Head(questions)
           seen == \E k \in 1..Len(unique_questions) :
                     NormalizedQuestion(unique_questions[k]) = NormalizedQuestion(q)
       IN Bind(IF seen THEN unique_questions ELSE Append(unique_questions, q),
               LAMBDA kept : _deduplicate_questions(Tail(questions), kept))

\* key (priority, len(research_tips)); a question has fewer than 100 tips
_rank_questions(questions) ==
  Bind(questions,
       LAMBDA qs : SortedDesc([i \in 1..Len(qs) |->
                                 <<100 * qs[i].priority + qs[i].research_tips, qs[i]>>]))

generate_verification_questions(claims, entities, cues, domain) ==
  Bind(ClaimQuestions(Take(claims, TopClaims))
         \o _generate_entity_questions(Take(entities, TopEntities))
         \o _generate_source_questions(domain, cues)
         \o _generate_context_questions(cues),
       LAMBDA questions :
         Take(_rank_questions(_deduplicate_questions(questions, <<>>)), MaxQuestions))

---------------------------------------------------------------------------
(* Sample findings                                                         *)

Items(prefix, n) == [i \in 1..n |-> prefix \o ToString(i)]

\* n claims of one word each, with confidences falling from `top` by `step`
SingleWordClaims(prefix, n, top, step) ==
  [i \in 1..n |-> Claim(<<prefix \o ToString(i)>>, "weak", FALSE, top - step * (i - 1))]

\* candidate claims of the heuristic pass (sentences that matched a pattern)
NearDuplicates ==
  <<Claim(<<"a", "b">>, "weak", FALSE, 70), Claim(<<"a", "b", "c">>, "weak", FALSE, 60)>>
AtThreshold ==
  <<Claim(<<"a", "b", "c">>, "weak", FALSE, 50),
    Claim(<<"a", "b", "c", "d", "e">>, "moderate", TRUE, 80)>>
Punctuated ==
  <<Claim(<<"a,", "b.">>, "weak", FALSE, 70), Claim(<<"a", "b">>, "weak", FALSE, 65)>>
StatisticalClaims ==
  <<Claim(<<"40%">>, "strong", TRUE, 90), Claim(<<"7%">>, "strong", TRUE, 85),
    Claim(<<"12%">>, "strong", TRUE, 80), Claim(<<"3%">>, "strong", TRUE, 75),
    Claim(<<"9%">>, "strong", TRUE, 70)>>
MixedClaims ==
  <<Claim(<<"Senate", "said", "yes">>, "moderate", TRUE, 60),
    Claim(<<"prices", "rose", "because", "demand", "rose">>, "weak", FALSE, 50),
    Claim(<<"the", "policy", "passed">>, "none", FALSE, 30),
    Claim(<<"40%">>, "strong", TRUE, 90)>>
TiedClaims ==
  <<Claim(<<"x">>, "weak", FALSE, 50), Claim(<<"y">>, "weak", FALSE, 50),
    Claim(<<"z">>, "weak", FALSE, 70)>>

CandidateLists ==
  {<<>>, NearDuplicates, AtThreshold, Punctuated, StatisticalClaims, MixedClaims,
   TiedClaims, SingleWordClaims("w", 9, 90, 5),
   NearDuplicates \o AtThreshold \o SingleWordClaims("w", 7, 45, 5)}

\* a chain: the second claim is more than 0.6 similar to the first and to
\* the third, the third is exactly 0.6 similar to the first
ChainClaims ==
  <<Claim(<<"a", "b", "c">>, "weak", FALSE, 80),
    Claim(<<"a", "b", "c", "d">>, "weak", FALSE, 70),
    Claim(<<"a", "b", "c", "d", "e">>, "weak", FALSE, 60)>>

\* claims as the provider can phrase them
AIClaimLists ==
  {<<>>, ChainClaims,
   <<Claim(<<"A", "B">>, "strong", TRUE, 90), Claim(<<"d">>, "weak", FALSE, 95)>>,
   <<Claim(<<"a", "b", "c", "d", "e">>, "weak", FALSE, 100),
     Claim(<<"a", "b", "c">>, "weak", FALSE, 0)>>,
   <<Claim(<<>>, "none", FALSE, 40), Claim(<<>>, "none", FALSE, 40)>>,
   TiedClaims,
   SingleWordClaims("v", 9, 99, 1)}

\* n flags of one severity with one-word descriptions
Flags(prefix, n, severity, top) ==
  [i \in 1..n |->
     RedFlag("source_bias", <<prefix \o ToString(i)>>, severity, top - (i - 1))]

FlagLists ==
  {<<>>,
   Flags("f", 15, "high", 80),
   Flags("g", 15, "high", 95),
   Flags("m", 6, "medium", 100) \o Flags("h", 6, "high", 20) \o Flags("l", 2, "low", 100),
   <<RedFlag("framing_bias", <<"No", "opposing", "views">>, "medium", 60),
     RedFlag("selection_bias", <<"no", "opposing", "views">>, "high", 70),
     RedFlag("selection_bias", <<"f1">>, "low", 90)>>}

LanguageAnalyses ==
  {NoLanguage,
   LanguageAnalysis("emotional", Items("i", 16), Items("w", 3), <<"shock", "Shock">>,
                    Items("p", 11)),
   LanguageAnalysis("persuasive", <<"i1", "I1", "x">>, Items("w", 14) \o <<"w1">>,
                    <<"shock", "fear">>, <<"p1", "q">>),
   LanguageAnalysis("inflammatory", Items("j", 9), Items("u", 9), Items("e", 9),
                    Items("q", 6))}

EntityLists ==
  {<<>>,
   <<Entity(<<"Acme">>, "ORG"), Entity(<<"Bob">>, "PERSON"), Entity(<<"Paris">>, "GPE")>>,
   [i \in 1..6 |-> Entity(<<"Org" \o ToString(i)>>, "ORG")]}

---------------------------------------------------------------------------
(* AnalysisOrchestrator.analyze_article, steps 2-11                        *)

\* where a request goes when the reconciliation / the question generator
\* returns: on to the next step of analyze_article, or back to a direct caller
AfterMerge(r) == IF entry[r] = "analyze_article" THEN "an_questions" ELSE "returned"
AfterQuestions(r) == IF entry[r] = "analyze_article" THEN "an_result" ELSE "returned"

\* a step that writes the merged claims back into the heuristic list
\* (all_claims aliasing traditional_claims)
StepInPlace(r, from, to, name, found, merged) ==
  /\ pc[r] = from /\ CanRun(r)
  /\ running' = Released(r, to)
  /\ pc' = [pc EXCEPT ![r] = to]
  /\ done' = [done EXCEPT ![r] = IF name = "-" THEN @ ELSE @ \cup {name}]
  /\ traditional' = [traditional EXCEPT ![r] =
                       IF name = "merge" THEN [found EXCEPT !.claims = merged.core_claims]
                       ELSE found]
  /\ analysis' = [analysis EXCEPT ![r] = merged]
  /\ UNCHANGED <<envVars, extractorVars, idx, last_error, article, exc, histVars,
                 now, start_time, ai_attempt, ai_data, generation, response>>

\* a synchronous step of analyze_article: it runs to its end without
\* awaiting, leaves `found` in the heuristic locals and `merged` in the
\* reconciled ones
Step(r, from, to, name, found, merged) ==
  /\ pc[r] = from /\ CanRun(r)
  /\ running' = Released(r, to)
  /\ pc' = [pc EXCEPT ![r] = to]
  /\ done' = [done EXCEPT ![r] = IF name = "-" THEN @ ELSE @ \cup {name}]
  /\ traditional' = [traditional EXCEPT ![r] = found]
  /\ analysis' = [analysis EXCEPT ![r] = merged]
  /\ UNCHANGED <<envVars, extractorVars, idx, last_error, article, exc, histVars,
                 now, start_time, ai_attempt, ai_data, generation, response>>

\* lines 48-55
ExtractEntities(r) ==
  /\ pc[r] = "an_entities"
  /\ \E e \in (IF opts[r].entity THEN heuristics.entities ELSE {<<>>}) :
       Step(r, "an_entities", "an_source", IF opts[r].entity THEN "entities" ELSE "-",
            [traditional[r] EXCEPT !.entities = e], analysis[r])

\* lines 57-64
ExtractSourceMetrics(r) ==
  Step(r, "an_source", "an_claims", IF opts[r].source THEN "source_metrics" ELSE "-",
       traditional[r], analysis[r])

\* lines 66-71
ExtractClaims(r) ==
  /\ pc[r] = "an_claims"
  /\ \E c \in heuristics.sentences :
       Step(r, "an_claims", "an_language", "claims",
            [traditional[r] EXCEPT !.claims = extract_claims(c)], analysis[r])

\* lines 73-78
DetectLanguageBias(r) ==
  \E l \in heuristics.language :
    Step(r, "an_language", "an_flags", "language",
         [traditional[r] EXCEPT !.language_analysis = l], analysis[r])

\* lines 80-82, then analyzer.analyze_article lines 49-61 up to the first attempt
DetectStructuralBias(r) ==
  \E f \in heuristics.red_flags :
    Step(r, "an_flags", "ai_try", "red_flags",
         [traditional[r] EXCEPT !.red_flags = f], analysis[r])

max_retries == 3

\* Settings.MAX_CONTENT_LENGTH
MAX_CONTENT_LENGTH == 1000000

\* prompts.format_main_analysis lines 155-166: the number of characters of
\* the article embedded in the prompt
format_main_analysis(content) == content.text.len

\* _generate_with_retry lines 155-172 (one pass of the loop) and, when an
\* attempt yields text, analyze_article lines 63-69
GenerateOutcomes == {"json", "unparseable", "empty", "error"}

\* the degrading variant: when the provider gives nothing usable the
\* pipeline goes on with the heuristic findings alone
GenerateStepDegraded(g, lastTry) ==
  CASE g = "json" -> "an_parse"
    [] g = "unparseable" -> "an_merge"
    [] g = "empty" -> IF lastTry THEN "an_merge" ELSE "ai_try"
    [] g = "error" -> IF lastTry THEN "an_merge" ELSE "ai_sleep"

\* the variant whose loop has no last attempt
GenerateStepEndless(g, lastTry) ==
  CASE g = "json" -> "an_parse"
    [] g = "unparseable" -> "an_except"
    [] g = "empty" -> "ai_try"
    [] g = "error" -> "ai_sleep"

\* where the outcome g of one attempt leads: text goes to the parser, an
\* empty answer to the next attempt without a pause, a provider error to the
\* backoff sleep, and the last attempt's failure to the caller's handler
GenerateStep(g, lastTry) ==
  CASE g = "json" -> "an_parse"
    [] g = "unparseable" -> "an_except"
    [] g = "empty" -> IF lastTry THEN "an_except" ELSE "ai_try"
    [] g = "error" -> IF lastTry THEN "an_except" ELSE "ai_sleep"

GenerateError(g) ==
  CASE g = "unparseable" -> [type |-> "ValueError", what |-> "ai_unparseable"]
    [] g = "empty" -> [type |-> "Exception", what |-> "ai_all_attempts_failed"]
    [] OTHER -> [type |-> "Exception", what |-> "ai_provider_error"]

GenerateAttempt(r) ==
  /\ pc[r] = "ai_try" /\ CanRun(r)
  /\ \E g \in GenerateOutcomes :
       LET to == GenerateStep(g, ai_attempt[r] = max_retries - 1) IN
       /\ pc' = [pc EXCEPT ![r] = to]
       /\ running' = IF to = "ai_sleep" THEN NoReq ELSE r
       /\ ai_attempt' = [ai_attempt EXCEPT ![r] = IF to = "ai_try" THEN @ + 1 ELSE @]
       /\ done' = [done EXCEPT ![r] = IF g = "json" THEN @ \cup {"ai"} ELSE @]
       /\ generation' = [generation EXCEPT ![r] =
                           [calls |-> @.calls + 1, text |-> g,
                            prompt |-> format_main_analysis(article[r].content)]]
       /\ \E d \in (IF g = "json" THEN responses ELSE {ai_data[r]}) :
            ai_data' = [ai_data EXCEPT ![r] = d]
       /\ IF to = "an_except"
            THEN Raise(r, GenerateError(g).type, GenerateError(g).what)
            ELSE UNCHANGED exc
  /\ UNCHANGED <<envVars, extractorVars, idx, last_error, article, histVars,
                 now, start_time, traditional, analysis, response>>

\* line 168: asyncio.sleep(2 ** attempt) is over, the loop goes on
BackoffOver(r) ==
  /\ pc[r] = "ai_sleep" /\ CanRun(r)
  /\ ai_attempt' = [ai_attempt EXCEPT ![r] = @ + 1]
  /\ pc' = [pc EXCEPT ![r] = "ai_try"]
  /\ running' = r
  /\ UNCHANGED <<envVars, extractorVars, idx, last_error, article, exc, histVars,
                 now, start_time, ai_data, generation, traditional, analysis, done,
                 response>>

\* orchestrator line 97, analyzer.parse_analysis_to_models lines 198-255:
\* data that an enum or a pydantic model of the parsed lists rejects raises;
\* a bias_confidence / overall_credibility outside [0, 1] is passed on
\* unchecked
ParseAnalysis(r) ==
  /\ pc[r] = "an_parse" /\ CanRun(r)
  /\ running' = r
  /\ IF ~parse_analysis_to_models(ai_data[r]).ok
       THEN /\ Raise(r, "ValidationError", "ai_models")
            /\ pc' = [pc EXCEPT ![r] = "an_except"]
            /\ UNCHANGED done
       ELSE /\ done' = [done EXCEPT ![r] = @ \cup {"parse"}]
            /\ pc' = [pc EXCEPT ![r] = "an_merge"]
            /\ UNCHANGED exc
  /\ UNCHANGED <<envVars, extractorVars, idx, last_error, article, histVars,
                 now, start_time, ai_attempt, ai_data, generation, traditional, analysis,
                 response>>

\* lines 99-105: _merge_claims, _merge_red_flags, _merge_language_analysis
MergeResults(r) ==
  /\ pc[r] = "an_merge"
  /\ LET parsed_ai == parse_analysis_to_models(ai_data[r]) IN
     Step(r, "an_merge", AfterMerge(r), "merge", traditional[r],
          Merged(_merge_claims(traditional[r].claims, parsed_ai.claims),
                 _merge_red_flags(traditional[r].red_flags, parsed_ai.red_flags),
                 _merge_language_analysis(traditional[r].language_analysis,
                                          parsed_ai.language_analysis),
                 analysis[r].verification_questions))

\* lines 107-111
GenerateQuestions(r) ==
  /\ pc[r] = "an_questions"
  /\ \E cues \in heuristics.cues :
       Step(r, "an_questions", AfterQuestions(r), "questions", traditional[r],
            [analysis[r] EXCEPT !.verification_questions =
               generate_verification_questions(analysis[r].core_claims,
                                               traditional[r].entities, cues,
                                               article[r].domain)])

---------------------------------------------------------------------------
(* EntityExtractor._deduplicate_entities                                   *)

\* Entity(text=..., label=..., confidence=..., context=...), lines 63-68
Mention(text, label, confidence, context) ==
  [text |-> text, label |-> label, confidence |-> confidence, context |-> context]

\* a later entity replaces the kept one also on equal confidence
ReplacesOnTie(entity, kept) == entity.confidence >= kept.confidence

\* line 135
Replaces(entity, kept) == entity.confidence > kept.confidence

\* lines 126-136: merged_entities as the list of its values, in insertion
\* order; the key of a value is its lower-cased text
RECURSIVE MergedEntities(_, _)
MergedEntities(entities, merged_entities) ==
  IF entities = <<>> THEN merged_entities
  ELSE LET entity == Head(entities)
           key == Simplified(entity.text)
           at == {k \in 1..Len(merged_entities) :
                    Simplified(merged_entities[k].text) = key}
       IN Bind(IF at = {} THEN Append(merged_entities, entity)
               ELSE LET k == CHOOSE k \in at : TRUE
                    IN IF Replaces(entity, merged_entities[k])
                         THEN [merged_entities EXCEPT ![k] = entity]
                         ELSE merged_entities,
               LAMBDA next : MergedEntities(Tail(entities), next))

_deduplicate_entities(entities) == MergedEntities(entities, <<>>)

---------------------------------------------------------------------------
(* BiasDetector: the structural red flags                                  *)

\* a text as the heuristic passes see it: its number of characters, its
\* number of words and, in order, the phrases of it that some pattern of
\* the detector can match
Passage(len, words, phrases) == [len |-> len, words |-> words, phrases |-> phrases]
NoPassage == Passage(0, 0, <<>>)

\* len(re.findall(p, content, re.IGNORECASE)) summed over the patterns p
findall(patterns, content) ==
  Cardinality({i \in 1..Len(content.phrases) : content.phrases[i] \in patterns})

\* `keyword in text`: a keyword is found in the phrase that is the keyword
\* and in the phrases of the model it is a part of
Holds(phrase, keyword) ==
  \/ phrase = keyword
  \/ <<phrase, keyword>> \in
       {<<"unnamed official", "official">>, <<"unnamed officials", "official">>,
        <<"experts say", "expert">>, <<"shocking truth", "shocking">>,
        <<"terrorists", "terror">>, <<"outrageous", "outrage">>,
        <<"outrageous", "rage">>}

\* the number of patterns p with re.search(p, content, re.IGNORECASE), or
\* with `p in content.lower()`
search(patterns, content) ==
  Cardinality({p \in patterns :
                \E i \in 1..Len(content.phrases) : Holds(content.phrases[i], p)})

\* lines 246-251: the phrases the four expressions match
anonymous_patterns ==
  {"anonymous source", "anonymous sources", "sources close to", "insider say",
   "insiders say", "unnamed official", "unnamed officials"}

\* lines 295-299: the phrases of the model the three expressions match
number_patterns == {"45% increase", "12% fall", "$3 million", "3 times higher"}

\* lines 309-315
context_patterns == {"compared to", "baseline", "previous year", "same period", "methodology"}

\* lines 331-336
cherry_pick_patterns == {"record high", "unprecedented", "never before seen", "highest ever"}

\* lines 403-406
opposing_indicators ==
  {"however", "but", "on the other hand", "critics argue", "opposing view",
   "alternative perspective", "others believe"}

\* lines 433-438
source_types ==
  [government |-> {"official", "spokesperson", "administration", "department"},
   expert |-> {"professor", "researcher", "analyst", "expert"},
   industry |-> {"executive", "company", "corporation", "business"},
   advocacy |-> {"activist", "advocate", "group", "organization"}]

\* lines 429-448, as the number of source types found; there are
\* Cardinality(DOMAIN source_types) types
_analyze_source_diversity(content) ==
  Cardinality({t \in DOMAIN source_types :
                \E keyword \in source_types[t] :
                  \E i \in 1..Len(content.phrases) : Holds(content.phrases[i], keyword)})

\* lines 240-286
_check_source_bias(content) ==
  LET anonymous_count == findall(anonymous_patterns, content)
      source_diversity == _analyze_source_diversity(content)
  IN (IF anonymous_count > 3
        THEN <<RedFlag("source_bias",
                       "Heavy reliance on anonymous sources (" \o ToString(anonymous_count)
                         \o " instances)", "high", 80)>>
      ELSE IF anonymous_count > 1
        THEN <<RedFlag("source_bias",
                       "Multiple anonymous sources (" \o ToString(anonymous_count)
                         \o " instances)", "medium", 60)>>
      ELSE <<>>)
     \o (IF 10 * source_diversity < 3 * Cardinality(DOMAIN source_types)
           THEN <<RedFlag("source_bias",
                          "Limited source diversity - potential echo chamber", "medium", 70)>>
         ELSE <<>>)

\* lines 288-350
_check_statistical_misuse(content) ==
  LET stats_found == findall(number_patterns, content)
      context_found == search(context_patterns, content)
      cherry_pick_count == search(cherry_pick_patterns, content)
  IN (IF stats_found > 2 /\ context_found = 0
        THEN <<RedFlag("statistical_misuse",
                       "Statistics presented without proper context or comparison",
                       "medium", 70)>>
      ELSE <<>>)
     \o (IF cherry_pick_count > 2
           THEN <<RedFlag("statistical_misuse",
                          "Potential cherry-picking of extreme statistics", "medium", 60)>>
         ELSE <<>>)

\* lines 397-427
_check_selection_bias(content) ==
  LET balance_score == search(opposing_indicators, content)
  IN IF content.len > 1000 /\ balance_score = 0
       THEN <<RedFlag("selection_bias",
                      "No opposing viewpoints or alternative perspectives presented",
                      "high", 80)>>
     ELSE IF content.len > 500 /\ balance_score < 2
       THEN <<RedFlag("selection_bias", "Limited opposing viewpoints presented",
                      "medium", 60)>>
     ELSE <<>>

\* lines 70-92; no phrase of the model matches a pattern of
\* _check_logical_fallacies
detect_structural_bias(content) ==
  _check_source_bias(content) \o _check_statistical_misuse(content)
  \o _check_selection_bias(content)

---------------------------------------------------------------------------
(* BiasDetector: the language analysis                                     *)

\* lines 14-40
emotional_positive ==
  <<"amazing", "fantastic", "incredible", "outstanding", "remarkable", "wonderful",
    "excellent", "brilliant", "spectacular", "magnificent">>
emotional_negative ==
  <<"terrible", "awful", "horrible", "devastating", "catastrophic", "disastrous",
    "shocking", "outrageous", "appalling", "disgusting">>
loaded_terms ==
  <<"regime", "puppet", "thugs", "terrorists", "extremists", "fanatics", "radicals",
    "militants", "cronies", "lackeys">>
appeal_to_emotion ==
  <<"you should be afraid", "this threatens", "dangerous consequences",
    "shocking truth", "hidden agenda", "they don't want you to know">>
false_dichotomy ==
  <<"either...or", "only two choices", "must choose between", "no middle ground",
    "black and white">>

\* [w for w in words if w in text]
Present(words, text) ==
  SelectSeq(words, LAMBDA w : \E i \in 1..Len(text.phrases) : Holds(text.phrases[i], w))

\* re.findall(pattern, text): the phrases of the text among `matching`, in
\* the order of the text
Matches(matching, text) == SelectSeq(text.phrases, LAMBDA ph : ph \in matching)

Labelled(label, items) == [i \in 1..Len(items) |-> label \o items[i]]

\* lines 94-118; a ratio is a count divided by max(total_words / 100, 1)
_detect_tone(text) ==
  LET positive_count == Len(Present(emotional_positive, text))
      negative_count == Len(Present(emotional_negative, text))
      loaded_count == Len(Present(loaded_terms, text))
      persuasive_count == Len(Present(appeal_to_emotion, text))
      per == Max(text.words, 100)
  IN IF 100 * loaded_count > 2 * per \/ 100 * persuasive_count > per
       THEN "inflammatory"
     ELSE IF 100 * (positive_count + negative_count) > 3 * per
             \/ negative_count > positive_count * 2
       THEN "emotional"
     ELSE IF 200 * persuasive_count > per
             \/ 200 * (positive_count + negative_count) > 3 * per
       THEN "persuasive"
     ELSE "neutral"

\* lines 120-154
_find_bias_indicators(text) ==
  Take(Labelled("Absolute statement: ",
                Matches({"always", "never", "all", "none", "every", "completely",
                         "totally", "absolutely"}, text)
                \o Matches({"everyone knows", "it's obvious", "clearly", "undoubtedly"},
                           text))
       \o Labelled("Unsubstantiated claim: ",
                   Matches({"sources say", "reports suggest", "it is believed",
                            "allegedly"}, text)
                   \o Matches({"many people think", "most experts agree", "studies show"},
                              text))
       \o Labelled("Loaded qualifier: ",
                   Present(<<"so-called", "alleged", "claimed", "supposed", "purported">>,
                           text)),
       10)

\* list(set(items)): the elements of the set in the order of the set's hash
\* table, which depends on the hash seed of the process; every order can
\* be returned
ListOfSet(items) ==
  LET S == {items[i] : i \in 1..Len(items)}
  IN {order \in [1..Cardinality(S) -> S] :
        \A i, j \in 1..Cardinality(S) : order[i] = order[j] => i = j}

\* the group an inflammatory pattern returns for a phrase of the model
Adjective(phrase) ==
  CASE phrase = "toxic debate" -> "toxic"
    [] phrase = "radical plan" -> "radical"
    [] phrase = "shocking truth" -> "shocking"
    [] phrase = "failed policy" -> "failed"
    [] OTHER -> ""

\* lines 156-175: the lists the call can return
_find_loaded_language(text) ==
  LET inflammatory(matching) ==
        LET m == Matches(matching, text) IN [i \in 1..Len(m) |-> Adjective(m[i])]
      found_terms == Present(loaded_terms, text)
                     \o inflammatory({"toxic debate", "radical plan"})
                     \o inflammatory({"shocking truth", "failed policy"})
  IN {Take(order, 15) : order \in ListOfSet(found_terms)}

\* lines 177-196: the lists the call can return
_find_emotional_words(text) ==
  LET fear_words == <<"threat", "danger", "risk", "fear", "terror", "crisis", "emergency">>
      anger_words == <<"outrage", "fury", "anger", "rage", "disgusting", "appalling">>
      emotional_words == Present(emotional_positive \o emotional_negative, text)
                         \o Present(fear_words \o anger_words, text)
  IN {Take(order, 10) : order \in ListOfSet(emotional_words)}

\* lines 198-238
_detect_persuasive_techniques(text) ==
  Take(Labelled("Appeal to emotion: ", Present(appeal_to_emotion, text))
       \o Labelled("False dichotomy: ", Present(false_dichotomy, text))
       \o Labelled("Bandwagon appeal: ",
                   Present(<<"everyone is doing", "most people believe",
                             "join the movement", "don't be left behind">>, text))
       \o Labelled("Vague authority appeal: ",
                   Present(<<"experts say", "authorities claim", "officials state">>,
                           text)),
       8)

\* lines 42-68, on full_text_lower: the analyses the call can return
detect_language_bias(text) ==
  {LanguageAnalysis(_detect_tone(text), _find_bias_indicators(text), loaded_language,
                    emotional_words, _detect_persuasive_techniques(text)) :
     loaded_language \in _find_loaded_language(text),
     emotional_words \in _find_emotional_words(text)}

---------------------------------------------------------------------------
(* CounterNarrativeGenerator                                               *)

\* the keys of perspective_frameworks, in the order of the dict
Frameworks == <<"economic", "political", "social", "environmental">>

\* what the content holds: keywords[i] occurrences of the keywords of
\* Frameworks[i], and terms[1], terms[2] terms of the two directions of the
\* dominant framework
NoPerspective == [keywords |-> <<0, 0, 0, 0>>, terms |-> <<0, 0>>]

\* max(perspective_scores, key=perspective_scores.get): the first key with
\* the highest score
Dominant(keywords) ==
  Frameworks[CHOOSE i \in 1..Len(Frameworks) :
               /\ \A j \in 1..Len(Frameworks) : keywords[j] <= keywords[i]
               /\ \A j \in 1..(i - 1) : keywords[j] < keywords[i]]

_analyze_bias_direction(terms, framework) ==
  CASE framework = "economic" ->
         IF terms[1] > terms[2] THEN "pro-business" ELSE "pro-regulation"
    [] framework = "political" ->
         IF terms[1] > terms[2] THEN "conservative" ELSE "liberal"
    [] framework = "environmental" ->
         IF terms[1] > terms[2] THEN "pro-environment" ELSE "pro-industry"
    [] OTHER -> "neutral"

_identify_dominant_perspective(content) ==
  [framework |-> Dominant(content.keywords),
   direction |-> _analyze_bias_direction(content.terms, Dominant(content.keywords))]

\* the keys of opposing_templates
opposing_templates ==
  {"economic_pro-business", "economic_pro-regulation", "political_conservative",
   "political_liberal", "environmental_pro-environment", "environmental_pro-industry"}

\* a lookup without the default text
_opposing_viewpoint_or_none(perspective) ==
  LET template_key == perspective.framework \o "_" \o perspective.direction
  IN IF template_key \in opposing_templates THEN template_key ELSE ""

\* opposing_templates.get(template_key, "Alternative perspectives ..."): the
\* text is named by its key, the default text is "generic"
_generate_opposing_viewpoint(perspective) ==
  LET template_key == perspective.framework \o "_" \o perspective.direction
  IN IF template_key \in opposing_templates THEN template_key ELSE "generic"

\* lines 34-63: None when the opposing viewpoint is empty
generate_counter_narrative(content) ==
  LET opposing_viewpoint ==
        _generate_opposing_viewpoint(_identify_dominant_perspective(content))
  IN IF opposing_viewpoint # ""
       THEN [present |-> TRUE, opposing_viewpoint |-> opposing_viewpoint]
       ELSE NoNarrative

---------------------------------------------------------------------------
(* AnalysisOrchestrator.analyze_article, steps 9-11                        *)

AnalysisResult(r, counter_narrative) ==
  [article |-> article[r], core_claims |-> analysis[r].core_claims,
   language_analysis |-> analysis[r].language_analysis,
   red_flags |-> analysis[r].red_flags,
   verification_questions |-> analysis[r].verification_questions,
   entities |-> traditional[r].entities,
   source_metrics |-> opts[r].source, counter_narrative |-> counter_narrative,
   bias_confidence |-> ai_data[r].bias_confidence,
   overall_credibility |-> ai_data[r].overall_credibility]

\* lines 113-160: the AnalysisResult is built (pydantic rejects out-of-range
\* scalars), the report is rendered and the success response returned
BuildResult(r) ==
  /\ pc[r] = "an_result" /\ CanRun(r)
  /\ IF ~(UnitRange(ai_data[r].bias_confidence)
          /\ UnitRange(ai_data[r].overall_credibility))
       THEN /\ Raise(r, "ValidationError", "analysis_result")
            /\ pc' = [pc EXCEPT ![r] = "an_except"]
            /\ running' = r
            /\ UNCHANGED <<done, response>>
       ELSE /\ done' = [done EXCEPT ![r] = @ \cup {"result"}]
            /\ \E content \in heuristics.perspective :
                 response' = [response EXCEPT ![r] =
                   [sent |-> TRUE, success |-> TRUE,
                    result |-> AnalysisResult(r, IF opts[r].counter
                                                   THEN generate_counter_narrative(content)
                                                   ELSE NoNarrative),
                    markdown_report |-> "report", error |-> NoError,
                    processing_time |-> now - start_time[r]]]
            /\ pc' = [pc EXCEPT ![r] = "responded"]
            /\ running' = NoReq
            /\ UNCHANGED exc
  /\ UNCHANGED <<envVars, extractorVars, idx, last_error, article, histVars,
                 now, start_time, ai_attempt, ai_data, generation, traditional, analysis>>

\* a direct call of EntityExtractor._deduplicate_entities on the entities in
\* traditional[r].entities
DeduplicateEntities(r) ==
  /\ pc[r] = "en_dedup"
  /\ Step(r, "en_dedup", "returned", "-",
          [traditional[r] EXCEPT !.entities = _deduplicate_entities(@)], analysis[r])

\* a direct call of BiasDetector.detect_structural_bias on the text of the
\* page
CheckStructuralBias(r) ==
  /\ pc[r] = "bd_structural"
  /\ \E content \in heuristics.passage :
       Step(r, "bd_structural", "returned", "-",
            [traditional[r] EXCEPT !.red_flags = detect_structural_bias(content)],
            analysis[r])

---------------------------------------------------------------------------
(* The three definitions of ContentExtractor in content_extractor.py, each *)
(* called without overlap on one shared instance                            *)

\* the second definition, lines 418-429
Extractors2(doc, sel) ==
  LET base == <<"trafilatura", "newspaper3k", "beautifulsoup">>
      withDoc == IF doc THEN <<base[1], base[2], "readability", base[3]>> ELSE base
  IN IF sel THEN Append(withDoc, "selenium") ELSE withDoc

\* the third definition, lines 705-711
Extractors3 == <<"trafilatura", "newspaper3k", "readability", "beautifulsoup", "selenium">>

DefinitionMethods(r) ==
  CASE entry[r] = "extract_content (1)" -> Extractors(Document, SELENIUM_AVAILABLE)
    [] entry[r] = "extract_content (2)" -> Extractors2(Document, SELENIUM_AVAILABLE)
    [] entry[r] = "extract_content (3)" -> Extractors3

\* what strategy m leaves on the instance: in the second definition (lines
\* 507-509) and in the third (line 789, as the fields read of the stored
\* article) only newspaper3k writes
DefinitionSideChannel(definition, m, o, cur) ==
  IF definition = "extract_content (1)" THEN SideChannel(m, o, cur)
  ELSE IF o.kind = "text" /\ m = "newspaper3k" THEN <<o.title, o.author, o.date>>
  ELSE cur

\* the title, author and publish_date of the result: lines 90-93, lines
\* 447-450 (getattr with default None), lines 933-954
DefinitionMetadata(definition, m, left) ==
  IF definition = "extract_content (3)" /\ m # "newspaper3k"
    THEN <<None, None, None>>
    ELSE left

\* line 83 and line 436: content and len(content) > 100; line 723: content
DefinitionAccepted(definition, o) ==
  /\ o.kind = "text"
  /\ o.text.len > (IF definition = "extract_content (3)" THEN 0 ELSE 100)
  /\ validate_extraction_result(o.text).is_valid

\* the call starts when no other call is running; the first definition
\* clears the three fields (lines 55-57), the others do not
SequentialStart(r) ==
  /\ pc[r] = "sq_start" /\ running = NoReq
  /\ running' = r
  /\ pc' = [pc EXCEPT ![r] = "sq_loop"]
  /\ idx' = [idx EXCEPT ![r] = 1]
  /\ IF entry[r] = "extract_content (1)"
       THEN last_title' = None /\ last_author' = None /\ last_date' = None
       ELSE UNCHANGED extractorVars
  /\ UNCHANGED <<envVars, last_error, article, exc, histVars, pipeVars>>

\* one pass of the loop: the strategy runs to its end, its text is gated,
\* and the call returns, goes on, or raises after the last strategy
SequentialStrategy(r) ==
  /\ pc[r] = "sq_loop" /\ running = r
  /\ LET m == DefinitionMethods(r)[idx[r]] IN
     \E o \in StrategyOutcomes(r, m) :
       LET left == DefinitionSideChannel(entry[r], m, o,
                                        <<last_title, last_author, last_date>>)
           v == validate_extraction_result(o.text)
       IN
       /\ last_title' = left[1] /\ last_author' = left[2] /\ last_date' = left[3]
       /\ invoked' = [invoked EXCEPT ![r] = Append(@, m)]
       /\ IF DefinitionAccepted(entry[r], o)
            THEN /\ article' = [article EXCEPT ![r] =
                                  ArticleContent(r, m, o.text, v.quality_score,
                                                 DefinitionMetadata(entry[r], m, left))]
                 /\ pc' = [pc EXCEPT ![r] = "returned"]
                 /\ running' = NoReq
                 /\ idx' = [idx EXCEPT ![r] = 0]
                 /\ UNCHANGED <<exc, last_error>>
            ELSE IF idx[r] < Len(DefinitionMethods(r))
              THEN /\ idx' = [idx EXCEPT ![r] = @ + 1]
                   /\ last_error' = [last_error EXCEPT ![r] = NextLastError(@, m, o)]
                   /\ UNCHANGED <<pc, running, article, exc>>
              ELSE /\ exc' = [exc EXCEPT ![r] =
                                [type |-> "Exception", what |-> "all_failed",
                                 last_error |-> NextLastError(last_error[r], m, o)]]
                   /\ pc' = [pc EXCEPT ![r] = "raised"]
                   /\ running' = NoReq
                   /\ idx' = [idx EXCEPT ![r] = 0]
                   /\ UNCHANGED <<article, last_error>>
  /\ UNCHANGED <<envVars, active, passed, final_attempt, gate, pipeVars>>

\* a direct call of ContentValidator.calculate_content_quality on a text of
\* the corpus, with or without a title; a title of the model that is found
\* has more than 10 characters
CalculateQuality(r) ==
  /\ pc[r] = "cv_quality" /\ CanRun(r)
  /\ \E content \in corpus, title \in {None, Found(r, "title")} :
       /\ gate' = [gate EXCEPT ![r] = content]
       /\ article' = [article EXCEPT ![r] =
                        [@ EXCEPT !.title = title,
                                  !.quality_score =
                                    calculate_content_quality(content, ~Falsy(title))]]
  /\ pc' = [pc EXCEPT ![r] = "returned"]
  /\ running' = Released(r, "returned")
  /\ UNCHANGED <<envVars, extractorVars, idx, last_error, exc, invoked, active, passed,
                 final_attempt, pipeVars>>

\* a direct call of ContentValidator.is_article_content on a text of the
\* corpus
IsArticleContent(r) ==
  /\ pc[r] = "cv_article" /\ CanRun(r)
  /\ \E content \in corpus :
       /\ gate' = [gate EXCEPT ![r] = content]
       /\ passed' = [passed EXCEPT ![r] =
                       IF is_article_content(content) THEN {"is_article_content"} ELSE {}]
  /\ pc' = [pc EXCEPT ![r] = "returned"]
  /\ running' = Released(r, "returned")
  /\ UNCHANGED <<envVars, extractorVars, idx, last_error, article, exc, invoked, active,
                 final_attempt, pipeVars>>

\* a direct call of ClaimExtractor._deduplicate_claims on the claims in
\* traditional[r].claims
DeduplicateClaims(r) ==
  /\ pc[r] = "ce_dedup"
  /\ Step(r, "ce_dedup", "returned", "-",
          [traditional[r] EXCEPT !.claims = _deduplicate_claims(@, <<>>)], analysis[r])

\* a direct call of BiasDetector.detect_language_bias on the text of the
\* page, before the call of detect_structural_bias
AnalyzeLanguage(r) ==
  /\ pc[r] = "bd_language"
  /\ \E text \in heuristics.passage :
       \E language_analysis \in detect_language_bias(text) :
         Step(r, "bd_language", "bd_structural", "-",
              [traditional[r] EXCEPT !.language_analysis = language_analysis],
              analysis[r])

\* a failure response that drops the message
FailureResponseSilent(e, elapsed) ==
  [sent |-> TRUE, success |-> FALSE, result |-> NoResult, markdown_report |-> "None",
   error |-> [text |-> "", cause |-> e],
   processing_time |-> elapsed]

\* lines 162-171: the handler of analyze_article
FailureResponse(e, elapsed) ==
  [sent |-> TRUE, success |-> FALSE, result |-> NoResult, markdown_report |-> "None",
   error |-> [text |-> "Analysis failed: ", cause |-> e],
   processing_time |-> elapsed]

AnalyzeExcept(r) ==
  /\ pc[r] = "an_except" /\ CanRun(r)
  /\ response' = [response EXCEPT ![r] = FailureResponse(exc[r], now - start_time[r])]
  /\ pc' = [pc EXCEPT ![r] = "responded"]
  /\ running' = NoReq
  /\ UNCHANGED <<envVars, extractorVars, idx, last_error, article, exc, histVars,
                 now, start_time, ai_attempt, ai_data, generation, traditional, analysis,
                 done>>

\* time passes
Tick ==
  /\ now < MaxClock
  /\ now' = now + 1
  /\ UNCHANGED <<envVars, extractorVars, running, pc, idx, last_error, article, exc,
                 histVars, start_time, ai_attempt, ai_data, generation, traditional,
                 analysis, done, response>>

---------------------------------------------------------------------------
(* Specifications                                                          *)

AllFaults == {"exception", "none", "escaped"}
Options == [entity : BOOLEAN, source : BOOLEAN, counter : BOOLEAN]
DefaultOptions == [entity |-> TRUE, source |-> TRUE, counter |-> TRUE]
Only(r, called, other) == [q \in Requests |-> IF q = r THEN called ELSE other]

\* answers of the provider: one every model accepts, one whose scalar is out
\* of range, one whose claim a pydantic model rejects
ValidData ==
  AnalysisData(<<Claim(<<"A", "B">>, "strong", TRUE, 90)>>,
               LanguageAnalysis("persuasive", <<"i1">>, <<>>, <<>>, <<>>),
               <<RedFlag("framing_bias", <<"f1">>, "high", 70)>>, <<3>>, 70, 60)
UncheckedData == AnalysisData(<<>>, NoLanguage, <<>>, <<>>, 150, 60)
RejectedData ==
  AnalysisData(<<Claim(<<"d">>, "weak", FALSE, 150)>>, NoLanguage, <<>>, <<>>, 70, 60)

\* before the pipeline has found anything
InitFindings ==
  /\ traditional = [r \in Requests |-> NoTraditional]
  /\ ai_data = [r \in Requests |-> NoData]
  /\ analysis = [r \in Requests |-> NoMerged]

\* a page in which the heuristic passes find nothing
NoFinding ==
  [sentences |-> {<<>>}, language |-> {NoLanguage}, red_flags |-> {<<>>},
   entities |-> {<<>>},
   cues |-> {[study |-> FALSE, historical |-> TRUE, comparative |-> TRUE]},
   perspective |-> {NoPerspective}, passage |-> {NoPassage}]

\* an answer with a tone and two scores only
PlainData ==
  AnalysisData(<<>>, LanguageAnalysis("persuasive", <<>>, <<>>, <<>>, <<>>), <<>>, <<>>,
               70, 60)

\* one analyze_article request
Init ==
  /\ InitCommon /\ InitFindings
  /\ heuristics = NoFinding
  /\ responses = {PlainData, UncheckedData, RejectedData}
  /\ Document = TRUE /\ SELENIUM_AVAILABLE \in BOOLEAN
  /\ corpus = {EmptyText, PlainText, SmallestArticle}
  /\ faults = AllFaults
  /\ entry = Only("r1", "analyze_article", "none")
  /\ pc = Only("r1", "an_start", "idle")
  /\ valid_url \in {Only("r1", TRUE, TRUE), Only("r1", FALSE, TRUE)}
  /\ opts \in {Only("r1", o, DefaultOptions) : o \in Options}

ExtractNext ==
  \E r \in Requests : ExtractStart(r) \/ InvokeStrategy(r) \/ CompleteStrategy(r)

Next ==
  \/ ExtractNext
  \/ \E r \in Requests :
        \/ AnalyzeStart(r) \/ ScrapeCheck(r) \/ MetadataFetched(r)
        \/ ExtractEntities(r) \/ ExtractSourceMetrics(r) \/ ExtractClaims(r)
        \/ DetectLanguageBias(r) \/ DetectStructuralBias(r)
        \/ GenerateAttempt(r) \/ BackoffOver(r) \/ ParseAnalysis(r)
        \/ MergeResults(r) \/ GenerateQuestions(r) \/ BuildResult(r)
        \/ AnalyzeExcept(r)
  \/ Tick

Spec == Init /\ [][Next]_vars

\* one direct extract_content call, over every text of the corpus
InitExtract ==
  /\ InitCommon /\ InitFindings
  /\ heuristics = NoFinding
  /\ responses = {PlainData}
  /\ Document \in BOOLEAN /\ SELENIUM_AVAILABLE \in BOOLEAN
  /\ corpus = Texts
  /\ faults = AllFaults
  /\ entry = Only("r1", "extract_content", "none")
  /\ pc = Only("r1", "ex_start", "idle")
  /\ valid_url \in {Only("r1", TRUE, TRUE), Only("r1", FALSE, TRUE)}
  /\ opts = [r \in Requests |-> DefaultOptions]

SpecExtract == InitExtract /\ [][ExtractNext]_vars

\* two extract_content calls in flight on the shared extractor
InitConc ==
  /\ InitCommon /\ InitFindings
  /\ heuristics = NoFinding
  /\ responses = {PlainData}
  /\ Document \in BOOLEAN /\ SELENIUM_AVAILABLE = TRUE
  /\ corpus = {PlainText, SmallestArticle}
  /\ faults = {"exception", "none"}
  /\ entry = [r \in Requests |-> "extract_content"]
  /\ pc = [r \in Requests |-> "ex_start"]
  /\ valid_url = [r \in Requests |-> TRUE]
  /\ opts = [r \in Requests |-> DefaultOptions]

SpecConc == InitConc /\ [][ExtractNext]_vars

\* analyze_article under the scheduling of the event loop: a coroutine that
\* can run is eventually run, and every pending network call or sleep ends
\* (each carries a timeout)
RequestNext(r) ==
  \/ ExtractStart(r) \/ InvokeStrategy(r) \/ CompleteStrategy(r)
  \/ AnalyzeStart(r) \/ ScrapeCheck(r) \/ MetadataFetched(r)
  \/ ExtractEntities(r) \/ ExtractSourceMetrics(r) \/ ExtractClaims(r)
  \/ DetectLanguageBias(r) \/ DetectStructuralBias(r)
  \/ GenerateAttempt(r) \/ BackoffOver(r) \/ ParseAnalysis(r)
  \/ MergeResults(r) \/ GenerateQuestions(r) \/ BuildResult(r)
  \/ AnalyzeExcept(r)

\* the request of Init on a host where selenium is installed: the chain has
\* all six strategies
InitFair == Init /\ SELENIUM_AVAILABLE

FairSpec == InitFair /\ [][Next]_vars /\ \A r \in Requests : WF_vars(RequestNext(r))

\* direct calls of the reconciliation (_merge_claims, _merge_red_flags,
\* _merge_language_analysis) and of generate_verification_questions, over the
\* sample findings
ValidClaimLists == {extract_claims(c) : c \in CandidateLists} \cup AIClaimLists

MergeArguments ==
  {<<Traditional(extract_claims(c), NoLanguage, <<>>, <<>>),
     AnalysisData(a, NoLanguage, <<>>, <<>>, 50, 50)>> :
       c \in CandidateLists, a \in ValidClaimLists}
  \cup {<<Traditional(<<>>, NoLanguage, f, <<>>),
          AnalysisData(<<>>, NoLanguage, g, <<>>, 50, 50)>> :
            f \in FlagLists, g \in FlagLists}
  \cup {<<Traditional(<<>>, l, <<>>, <<>>), AnalysisData(<<>>, m, <<>>, <<>>, 50, 50)>> :
            l \in LanguageAnalyses, m \in LanguageAnalyses}

QuestionArguments ==
  {<<Traditional(<<>>, NoLanguage, <<>>, e), Merged(c, <<>>, NoLanguage, <<>>)>> :
     e \in EntityLists, c \in ValidClaimLists}

InitCalls ==
  /\ InitCommon
  /\ Document = TRUE /\ SELENIUM_AVAILABLE = TRUE
  /\ corpus = {} /\ faults = {}
  /\ valid_url = [r \in Requests |-> TRUE]
  /\ opts = [r \in Requests |-> DefaultOptions]
  /\ heuristics = [NoFinding EXCEPT !.cues = Cues]
  /\ responses = {}
  /\ \/ /\ entry = Only("r1", "merge", "none")
        /\ pc = Only("r1", "an_merge", "idle")
        /\ \E m \in MergeArguments :
             /\ traditional = Only("r1", m[1], NoTraditional)
             /\ ai_data = Only("r1", m[2], NoData)
             /\ analysis = [r \in Requests |-> NoMerged]
     \/ /\ entry = Only("r1", "generate_verification_questions", "none")
        /\ pc = Only("r1", "an_questions", "idle")
        /\ \E q \in QuestionArguments :
             /\ traditional = Only("r1", q[1], NoTraditional)
             /\ analysis = Only("r1", q[2], NoMerged)
             /\ ai_data = [r \in Requests |-> NoData]

CallsNext == \E r \in Requests : MergeResults(r) \/ GenerateQuestions(r)

SpecCalls == InitCalls /\ [][CallsNext]_vars

\* entities of three spellings, two confidences and two contexts
Mentions ==
  {Mention(t, "ORG", c, x) :
     t \in {<<"Acme">>, <<"acme">>, <<"Senate">>}, c \in {55, 70}, x \in {"s1", "s2"}}

\* every list of three of them
MentionLists == {<<a, b, c>> : a \in Mentions, b \in Mentions, c \in Mentions}

\* two extract_content calls, one after the other, on one instance of one of
\* the three definitions
InitSequential ==
  /\ InitCommon /\ InitFindings
  /\ heuristics = NoFinding
  /\ responses = {}
  /\ Document \in BOOLEAN /\ SELENIUM_AVAILABLE = TRUE
  /\ corpus = {PlainText, SmallestArticle}
  /\ faults = {"exception", "none"}
  /\ \E definition \in {"extract_content (1)", "extract_content (2)",
                         "extract_content (3)"} :
       entry = [r \in Requests |-> definition]
  /\ pc = [r \in Requests |-> "sq_start"]
  /\ valid_url = [r \in Requests |-> TRUE]
  /\ opts = [r \in Requests |-> DefaultOptions]

SequentialNext == \E r \in Requests : SequentialStart(r) \/ SequentialStrategy(r)

SpecSequential == InitSequential /\ [][SequentialNext]_vars

\* texts whose paragraph breaks are partly "\n \n" and whose sentences end
\* partly in "!" or "?"
MixedTexts ==
  {[SmallestArticle EXCEPT !.nn = 2, !.nsn = 1],
   [SmallestArticle EXCEPT !.dots = 3, !.marks = 2],
   [SmallestArticle EXCEPT !.dots = 2, !.marks = 2],
   [SmallestArticle EXCEPT !.nn = 1, !.nsn = 1]}

\* direct calls of the validator by two callers, over every text of the corpus
InitValidator ==
  /\ InitCommon /\ InitFindings
  /\ heuristics = NoFinding
  /\ responses = {}
  /\ Document = TRUE /\ SELENIUM_AVAILABLE = TRUE
  /\ corpus = Texts \cup MixedTexts
  /\ faults = {}
  /\ valid_url = [r \in Requests |-> TRUE]
  /\ opts = [r \in Requests |-> DefaultOptions]
  /\ entry \in [Requests -> {"calculate_content_quality", "is_article_content"}]
  /\ pc = [r \in Requests |->
            IF entry[r] = "calculate_content_quality" THEN "cv_quality" ELSE "cv_article"]

ValidatorNext == \E r \in Requests : CalculateQuality(r) \/ IsArticleContent(r)

SpecValidator == InitValidator /\ [][ValidatorNext]_vars

\* phrases a text can have beside those it starts with
OtherPhrases ==
  {"anonymous sources", "unnamed officials", "official", "company", "professor",
   "however", "but", "compared to", "45% increase", "3 times higher", "record high",
   "unprecedented", "highest ever"}

\* three "sources say" and one "45% increase"
ScenarioPhrases == <<"sources say", "sources say", "45% increase", "sources say">>

\* texts of 400, 800, 1990, 2000 and 2010 characters that start with the
\* phrases of the scenario, or with two anonymous sources, and go on with up
\* to two other phrases
Passages ==
  {Passage(len, len \div 6, start \o more) :
     len \in {400, 800, 1990, 2000, 2010},
     start \in {ScenarioPhrases, <<"anonymous sources", "insiders say">>},
     more \in {<<>>} \cup {<<a>> : a \in OtherPhrases}
              \cup {<<a, b>> : a \in OtherPhrases, b \in OtherPhrases}}

\* a claim of `shared` common words followed by `own` words of its own
WordsClaim(shared, prefix, own) ==
  Claim(Items("w", shared) \o Items(prefix, own), "weak", FALSE, 50)

\* pairs of claims whose word sets share 5 to 9 words of a union of 10, in
\* both orders, and the lists of three made of them
OverlappingClaims ==
  LET pairs == {<<WordsClaim(n, "x", a), WordsClaim(n, "y", 10 - n - a)>> :
                  n \in 5..9, a \in 0..1}
  IN pairs \cup {<<p[2], p[1]>> : p \in pairs}
     \cup {<<p[1], q[2], p[2]>> : p \in pairs, q \in pairs}

\* texts of 60 and of 400 words with up to three phrases of charged language
ChargedPhrases ==
  {"amazing", "terrible", "crisis", "regime", "terrorists", "toxic debate",
   "shocking truth", "always", "sources say", "alleged", "experts say",
   "only two choices", "however"}

LoadedPassages ==
  {Passage(6 * words, words, phrases) :
     words \in {60, 400},
     phrases \in {<<>>} \cup {<<a>> : a \in ChargedPhrases}
                 \cup {<<a, b>> : a \in ChargedPhrases, b \in ChargedPhrases}
                 \cup {<<a, "regime", b>> : a \in ChargedPhrases, b \in ChargedPhrases}}

\* direct calls of the helpers of the heuristic passes
InitHeuristics ==
  /\ InitCommon
  /\ Document = TRUE /\ SELENIUM_AVAILABLE = TRUE
  /\ corpus = {} /\ faults = {}
  /\ valid_url = [r \in Requests |-> TRUE]
  /\ opts = [r \in Requests |-> DefaultOptions]
  /\ responses = {}
  /\ ai_data = [r \in Requests |-> NoData]
  /\ analysis = [r \in Requests |-> NoMerged]
  /\ \/ /\ entry = Only("r1", "_deduplicate_entities", "none")
        /\ pc = Only("r1", "en_dedup", "idle")
        /\ heuristics = NoFinding
        /\ \E e \in MentionLists :
             traditional = Only("r1", [NoTraditional EXCEPT !.entities = e], NoTraditional)
     \/ /\ entry = Only("r1", "_deduplicate_claims", "none")
        /\ pc = Only("r1", "ce_dedup", "idle")
        /\ heuristics = NoFinding
        /\ \E c \in OverlappingClaims :
             traditional = Only("r1", [NoTraditional EXCEPT !.claims = c], NoTraditional)
     \/ /\ entry = Only("r1", "detect_structural_bias", "none")
        /\ pc = Only("r1", "bd_structural", "idle")
        /\ \E content \in Passages : heuristics = [NoFinding EXCEPT !.passage = {content}]
        /\ traditional = [r \in Requests |-> NoTraditional]
     \/ /\ entry = [r \in Requests |-> "detect_language_bias"]
        /\ pc = [r \in Requests |-> "bd_language"]
        /\ \E content \in LoadedPassages :
             heuristics = [NoFinding EXCEPT !.passage = {content}]
        /\ traditional = [r \in Requests |-> NoTraditional]

HeuristicsNext ==
  \E r \in Requests :
    \/ DeduplicateEntities(r) \/ DeduplicateClaims(r)
    \/ AnalyzeLanguage(r) \/ CheckStructuralBias(r)

SpecHeuristics == InitHeuristics /\ [][HeuristicsNext]_vars

\* an article longer than Settings.MAX_CONTENT_LENGTH
HugeArticle ==
  [len |-> 1200000, nn |-> 4, nsn |-> 0, dots |-> 20000, marks |-> 0, nonart |-> FALSE,
   en |-> TRUE]

\* answers that reach or pass every cap of the result, and answers a model
\* rejects
FullData ==
  AnalysisData(SingleWordClaims("v", 9, 100, 1),
               LanguageAnalysis("emotional", Items("i", 16), Items("w", 16),
                                Items("e", 16), Items("p", 11)),
               Flags("g", 15, "high", 100), <<5, 1>>, 100, 0)
BadToneData ==
  AnalysisData(<<>>, LanguageAnalysis("angry", <<>>, <<>>, <<>>, <<>>), <<>>, <<>>, 70, 60)
BadFlagData ==
  AnalysisData(<<>>, NoLanguage, <<RedFlag("framing_bias", <<"f1">>, "high", 0 - 10)>>,
               <<>>, 70, 60)
BadSeverityData ==
  AnalysisData(<<>>, NoLanguage, <<RedFlag("framing_bias", <<"f1">>, "critical", 50)>>,
               <<>>, 70, 60)
BadPriorityData == AnalysisData(<<>>, NoLanguage, <<>>, <<9>>, 70, 60)
LowCredibilityData == AnalysisData(<<>>, NoLanguage, <<>>, <<>>, 70, 0 - 10)

\* one analyze_article request whose heuristic passes and provider can give
\* long lists, and whose page can be very long
InitAnalyze ==
  /\ InitCommon /\ InitFindings
  /\ Document = TRUE /\ SELENIUM_AVAILABLE = TRUE
  /\ corpus = {SmallestArticle, HugeArticle}
  /\ faults = {"exception"}
  /\ entry = Only("r1", "analyze_article", "none")
  /\ pc = Only("r1", "an_start", "idle")
  /\ valid_url = [r \in Requests |-> TRUE]
  /\ opts \in {Only("r1", [DefaultOptions EXCEPT !.entity = b], DefaultOptions) :
                 b \in BOOLEAN}
  /\ heuristics =
       [sentences |-> {SingleWordClaims("w", 9, 90, 5)},
        language |-> {LanguageAnalysis("neutral", Items("j", 9), Items("u", 9),
                                       Items("e", 9), Items("q", 6))},
        red_flags |-> {Flags("f", 4, "high", 80)},
        entities |-> {[i \in 1..6 |-> Entity(<<"Org" \o ToString(i)>>, "ORG")]},
        cues |-> {[study |-> TRUE, historical |-> FALSE, comparative |-> FALSE]},
        perspective |-> {NoPerspective}, passage |-> {NoPassage}]
  /\ responses = {ValidData, UncheckedData, RejectedData, FullData, BadToneData,
                  BadFlagData, BadSeverityData, BadPriorityData, LowCredibilityData}

SpecAnalyze == InitAnalyze /\ [][Next]_vars

\* one analyze_article request on a page that extracts, with nothing found
\* by the heuristic passes: what varies is what each generation attempt gives
InitGenerate ==
  /\ InitCommon /\ InitFindings
  /\ Document = TRUE /\ SELENIUM_AVAILABLE = TRUE
  /\ corpus = {SmallestArticle}
  /\ faults = {"exception"}
  /\ entry = Only("r1", "analyze_article", "none")
  /\ pc = Only("r1", "an_start", "idle")
  /\ valid_url = [r \in Requests |-> TRUE]
  /\ opts = [r \in Requests |-> DefaultOptions]
  /\ heuristics = NoFinding
  /\ responses = {PlainData}

SpecGenerate == InitGenerate /\ [][Next]_vars

\* contents whose dominant framework is economic (nothing found), political
\* (tied with social), social and environmental
Perspectives ==
  {NoPerspective, [keywords |-> <<0, 2, 2, 0>>, terms |-> <<1, 0>>],
   [keywords |-> <<0, 0, 3, 1>>, terms |-> <<0, 0>>],
   [keywords |-> <<1, 0, 0, 4>>, terms |-> <<2, 1>>]}

\* the request of InitGenerate with or without the counter-narrative, on
\* contents of each framework
InitNarrative ==
  /\ InitCommon /\ InitFindings
  /\ Document = TRUE /\ SELENIUM_AVAILABLE = TRUE
  /\ corpus = {SmallestArticle}
  /\ faults = {"exception"}
  /\ entry = Only("r1", "analyze_article", "none")
  /\ pc = Only("r1", "an_start", "idle")
  /\ valid_url = [r \in Requests |-> TRUE]
  /\ opts \in {Only("r1", [DefaultOptions EXCEPT !.counter = b], DefaultOptions) :
                 b \in BOOLEAN}
  /\ heuristics = [NoFinding EXCEPT !.perspective = Perspectives]
  /\ responses = {PlainData}

SpecNarrative == InitNarrative /\ [][Next]_vars

\* the event loop runs every coroutine that can run
FairSpecGenerate == SpecGenerate /\ \A r \in Requests : WF_vars(RequestNext(r))

---------------------------------------------------------------------------
(* Properties of the extraction chain                                      *)

IsPrefix(s, t) == Len(s) <= Len(t) /\ \A i \in 1..Len(s) : s[i] = t[i]
Last(s) == s[Len(s)]

\* the order of preference the strategies are documented to have
PreferenceOrder ==
  <<"trafilatura", "newspaper3k", "readability", "beautifulsoup", "simple_requests",
    "selenium">>
Strategies == {PreferenceOrder[i] : i \in 1..Len(PreferenceOrder)}
Available(m) ==
  /\ m = "readability" => Document
  /\ m = "selenium" => SELENIUM_AVAILABLE
Position(m) == CHOOSE i \in 1..Len(PreferenceOrder) : PreferenceOrder[i] = m

\* C1: within one extract_content call the strategies are invoked one at a
\* time, in the fixed order of preference and without skipping an available
\* one; the call returns at the first strategy whose text passes the gate,
\* extraction_method is that strategy's name, and nothing is invoked after it.
C1_OrderedFirstSuccess ==
  \A r \in Requests :
    /\ Cardinality(active[r]) <= 1
    /\ \A i \in 1..Len(invoked[r]) :
         /\ Available(invoked[r][i])
         /\ \A m \in {x \in Strategies : Available(x)} :
              Position(m) < Position(invoked[r][i])
                => \E j \in 1..(i - 1) : invoked[r][j] = m
         /\ \A j \in 1..(i - 1) : Position(invoked[r][j]) < Position(invoked[r][i])
    /\ passed[r] # {} =>
         /\ pc[r] = "returned"
         /\ passed[r] = {Last(invoked[r])}
    /\ pc[r] = "returned" =>
         /\ active[r] = {}
         /\ passed[r] = {Last(invoked[r])}
         /\ article[r].extraction_method = Last(invoked[r])

\* the third strategy of the list won after two were rejected
C1_Witness ==
  /\ pc["r1"] = "returned"
  /\ invoked["r1"] = <<"trafilatura", "newspaper3k", "readability">>
  /\ article["r1"].extraction_method = "readability"

\* C2: for a well-formed URL extract_content raises only after every
\* configured strategy has been invoked and none was accepted; no exception,
\* timeout or null result of one strategy reaches the caller while an untried
\* strategy remains.
C2_RaisesOnlyWhenExhausted ==
  \A r \in Requests :
    (valid_url[r] /\ exc[r] # NoExc) =>
      /\ exc[r].what = "all_failed"
      /\ invoked[r] = Methods(r)
      /\ active[r] = {}
      /\ passed[r] = {}

\* the first strategy let an exception through and the call still went on to
\* the end of the list before it raised
C2_Witness ==
  /\ pc["r1"] = "raised"
  /\ exc["r1"].what = "all_failed"
  /\ exc["r1"].last_error = "trafilatura"
  /\ Len(invoked["r1"]) = 6

\* C3: when every strategy fails, the exception extract_content raises
\* carries the error of the final attempted strategy, whether that strategy
\* raised, returned nothing or was rejected by the gate.
C3_CarriesFinalStrategyError ==
  \A r \in Requests :
    exc[r].what = "all_failed" => exc[r].last_error = final_attempt[r].method

\* C4: every returned ArticleContent was built from strategy text for which
\* validate_extraction_result succeeded (non-empty, is_article_content,
\* quality >= 0.3), and its quality_score lies in [0.3, 1.0].
C4_ReturnedTextPassedGate ==
  \A r \in Requests :
    pc[r] = "returned" =>
      /\ gate[r].len > 0
      /\ is_article_content(gate[r])
      /\ calculate_content_quality(gate[r], FALSE) >= MinQuality
      /\ article[r].quality_score = calculate_content_quality(gate[r], FALSE)
      /\ article[r].content.text = clean_content(gate[r])
      /\ MinQuality <= article[r].quality_score
      /\ article[r].quality_score <= OneScore

\* an article was returned whose score is exactly the threshold
C4_Witness ==
  /\ pc["r1"] = "returned"
  /\ gate["r1"] = ThresholdArticle
  /\ article["r1"].quality_score = MinQuality

---------------------------------------------------------------------------
(* Properties of scrape_article and analyze_article                        *)

\* C7: metadata enrichment in scrape_article changes only title, author and
\* publish_date, and each only from missing (None or the empty string, which
\* `not field` treats alike) to a value; url, content, domain, language,
\* quality_score and extraction_method are left as extraction returned them.
C7_EnrichmentFrame ==
  [][\A r \in Requests :
       pc[r] \in {"sc_enrich", "md_await"} =>
         /\ \A f \in {"url", "content", "domain", "language", "quality_score",
                      "extraction_method"} :
              article'[r][f] = article[r][f]
         /\ \A f \in {"title", "author", "publish_date"} :
              article'[r][f] # article[r][f] =>
                Falsy(article[r][f]) /\ ~Falsy(article'[r][f])]_vars

\* enrichment filled the author and left the title the winning strategy set
C7_Witness ==
  /\ "enrichment" \in done["r1"]
  /\ article["r1"].title = Found("r1", "newspaper3k")
  /\ article["r1"].author = Found("r1", "metadata")

\* C8: no failure of the enrichment step (fetch error, non-200 response,
\* error while parsing the fetched HTML) makes the analysis fail: once
\* extraction has returned an article, scrape_article returns it.
C8_EnrichmentFailureSwallowed ==
  \A r \in Requests :
    ("extraction" \in done[r] /\ pc[r] \in {"an_except", "responded"}) =>
      exc[r].what # "metadata_parse"

WellFormed(resp) ==
  IF resp.success
    THEN /\ resp.result # NoResult
         /\ resp.result.article # NoArticle
         /\ resp.markdown_report # "None"
         /\ resp.processing_time >= 0
         /\ resp.error = NoError
    ELSE /\ resp.error.text # ""
         /\ resp.result = NoResult
         /\ resp.markdown_report = "None"
         /\ resp.processing_time >= 0

\* C9: every analyze_article call ends by returning a well-formed response
\* and never lets an exception out: success with a result, a report and a
\* processing time, or failure with a non-empty error, no result and a
\* processing time >= 0.
C9_AlwaysWellFormedResponse ==
  /\ [](\A r \in Requests :
          /\ pc[r] # "raised"
          /\ response[r].sent => WellFormed(response[r])
          /\ pc[r] = "responded" <=> response[r].sent)
  /\ <>(\A r \in Requests : entry[r] = "analyze_article" => response[r].sent)

\* every strategy was tried and none accepted: the failure response
C9_Witness ==
  /\ response["r1"].sent /\ ~response["r1"].success
  /\ response["r1"].error.cause.what = "all_failed"
  /\ response["r1"].processing_time = MaxClock

AIFailures ==
  {"ai_unparseable", "ai_all_attempts_failed", "ai_provider_error", "ai_models"}

Required(r) ==
  {"extraction", "claims", "language", "red_flags", "ai", "parse"}
    \cup (IF opts[r].entity THEN {"entities"} ELSE {})
    \cup (IF opts[r].source THEN {"source_metrics"} ELSE {})

\* C10: a success response is produced only after extraction, the heuristic
\* passes (entities / source metrics when requested) and the AI analysis have
\* completed; reconciliation starts only after all of them; when the AI
\* analysis fails the response is a failure with no AnalysisResult.
C10_SuccessOnlyAfterAllStages ==
  \A r \in Requests :
    /\ response[r].success => Required(r) \cup {"merge", "questions"} \subseteq done[r]
    /\ (pc[r] = "an_merge" \/ "merge" \in done[r]) => Required(r) \subseteq done[r]
    /\ (exc[r].what \in AIFailures /\ response[r].sent) =>
         /\ ~response[r].success
         /\ response[r].result = NoResult
         /\ {"claims", "language", "red_flags"} \subseteq done[r]

\* a success response for a request that asked for no entity analysis
C10_Witness ==
  /\ response["r1"].success
  /\ ~opts["r1"].entity /\ opts["r1"].source
  /\ "entities" \notin done["r1"]

---------------------------------------------------------------------------
(* Properties of the reconciliation                                        *)

\* the requests whose reconciliation has run
Reconciled == {r \in Requests : "merge" \in done[r]}

\* the two inputs of the reconciliation, heuristic findings first
AllClaims(r) == traditional[r].claims \o ai_data[r].core_claims
AllFlags(r) == traditional[r].red_flags \o ai_data[r].red_flags

Occurs(x, items) == \E i \in 1..Len(items) : items[i] = x

\* Jaccard similarity of the lower-cased word sets above 0.6
Jaccard06(c, d) ==
  LET a == WordSet(c.claim)
      b == WordSet(d.claim)
  IN a \cup b # {} /\ 10 * Cardinality(a \cap b) > 6 * Cardinality(a \cup b)

\* C11: the reconciled claim list holds claims of the two inputs only, no two
\* of them more than 0.6 similar, in non-increasing order of confidence, at
\* most 8 of them; a claim of the inputs is left out only when an earlier
\* claim of the concatenation (heuristic first) is more than 0.6 similar to
\* it, or when 8 claims of at least its confidence were kept.
C11_ClaimsMerged ==
  \A r \in Reconciled :
    LET out == analysis[r].core_claims
        all == AllClaims(r)
    IN /\ Len(out) <= 8
       /\ \A i \in 1..Len(out) : Occurs(out[i], all)
       /\ \A i, j \in 1..Len(out) : i < j =>
            /\ ~Jaccard06(out[i], out[j])
            /\ out[i].confidence >= out[j].confidence
       /\ \A i \in 1..Len(all) :
            \/ Occurs(all[i], out)
            \/ \E j \in 1..(i - 1) : Jaccard06(all[j], all[i])
            \/ Len(out) = 8 /\ out[8].confidence >= all[i].confidence

\* a reconciliation that dropped a near-duplicate and cut the rest to 8
C11_Witness ==
  /\ "r1" \in Reconciled
  /\ Len(analysis["r1"].core_claims) = 8
  /\ \E i, j \in 1..Len(AllClaims("r1")) :
       /\ j < i /\ Jaccard06(AllClaims("r1")[j], AllClaims("r1")[i])
       /\ ~Occurs(AllClaims("r1")[i], analysis["r1"].core_claims)
  /\ \E i \in 1..Len(AllClaims("r1")) :
       /\ ~Occurs(AllClaims("r1")[i], analysis["r1"].core_claims)
       /\ \A j \in 1..(i - 1) : ~Jaccard06(AllClaims("r1")[j], AllClaims("r1")[i])

\* C12: reconciling a list produced by the heuristic extractor with itself
\* yields exactly as many claims as the list holds.
C12_SelfMergeKeepsAll ==
  \A r \in Reconciled :
    traditional[r].claims = ai_data[r].core_claims =>
      Len(analysis[r].core_claims) = Len(traditional[r].claims)

\* f is not ranked below g: a higher severity, or the same severity and at
\* least g's confidence
NotBelow(f, g) ==
  \/ f.severity = "high" /\ g.severity \in {"medium", "low"}
  \/ f.severity = "medium" /\ g.severity = "low"
  \/ f.severity = g.severity /\ f.confidence >= g.confidence

SameDescription(f, g) == Simplified(f.description) = Simplified(g.description)

\* C13: the reconciled red flags are the first flag of each normalised
\* description (lower-cased, whitespace collapsed) of the concatenation,
\* heuristic first, ordered by severity (high > medium > low) and then by
\* confidence, descending, and cut to the first 10: every high flag precedes
\* every medium one, and 15 distinct high flags from each source give 10.
C13_RedFlagsMerged ==
  \A r \in Reconciled :
    LET out == analysis[r].red_flags
        all == AllFlags(r)
    IN /\ Len(out) <= 10
       /\ \A i, j \in 1..Len(out) : i < j =>
            /\ ~SameDescription(out[i], out[j])
            /\ NotBelow(out[i], out[j])
            /\ out[j].severity = "high" => out[i].severity = "high"
       /\ \A i \in 1..Len(out) :
            \E k \in 1..Len(all) :
              /\ all[k] = out[i]
              /\ \A j \in 1..(k - 1) : ~SameDescription(all[j], all[k])
       /\ \A i \in 1..Len(all) :
            \/ Occurs(all[i], out)
            \/ \E j \in 1..(i - 1) : SameDescription(all[j], all[i])
            \/ Len(out) = 10 /\ NotBelow(out[10], all[i])
       /\ Cardinality({Simplified(all[i].description) : i \in 1..Len(all)}) >= 10
            => Len(out) = 10

\* 15 distinct high flags from each source were reconciled into 10
C13_Witness ==
  /\ "r1" \in Reconciled
  /\ Len(traditional["r1"].red_flags) = 15 /\ Len(ai_data["r1"].red_flags) = 15
  /\ \A i \in 1..30 : AllFlags("r1")[i].severity = "high"
  /\ Cardinality({Simplified(AllFlags("r1")[i].description) : i \in 1..30}) = 30
  /\ Len(analysis["r1"].red_flags) = 10

FirstAt(x, items) == CHOOSE i \in 1..Len(items) :
                        items[i] = x /\ \A j \in 1..(i - 1) : items[j] # x

\* out is the list ai followed, in their order in tr, by the items of tr that
\* ai does not hold (each once), cut to its first n items
AppendedAndCut(out, ai, tr, n) ==
  /\ Len(out) <= n
  /\ Len(out) >= Min(n, Len(ai))
  /\ \A i \in 1..Len(out) :
       IF i <= Len(ai) THEN out[i] = ai[i]
       ELSE /\ Occurs(out[i], tr) /\ ~Occurs(out[i], ai)
            /\ \A j \in (Len(ai) + 1)..(i - 1) :
                 out[j] # out[i] /\ FirstAt(out[j], tr) < FirstAt(out[i], tr)
  /\ \A k \in 1..Len(tr) :
       \/ Occurs(tr[k], ai)
       \/ Occurs(tr[k], out)
       \/ /\ Len(out) = n
          /\ \A j \in (Len(ai) + 1)..Len(out) : FirstAt(out[j], tr) < FirstAt(tr[k], tr)

\* C14: the reconciled language analysis has the AI tone; each of its four
\* lists is the AI list followed in order by the heuristic items the AI list
\* does not hold (compared case-sensitively), cut to 15 items (bias
\* indicators, loaded language, emotional words) or 10 (persuasive
\* techniques).
C14_LanguageMerged ==
  \A r \in Reconciled :
    LET out == analysis[r].language_analysis
        ai == ai_data[r].language_analysis
        tr == traditional[r].language_analysis
    IN /\ out.tone = ai.tone
       /\ AppendedAndCut(out.bias_indicators, ai.bias_indicators, tr.bias_indicators, 15)
       /\ AppendedAndCut(out.loaded_language, ai.loaded_language, tr.loaded_language, 15)
       /\ AppendedAndCut(out.emotional_words, ai.emotional_words, tr.emotional_words, 15)
       /\ AppendedAndCut(out.persuasive_techniques, ai.persuasive_techniques,
                         tr.persuasive_techniques, 10)

\* a reconciliation of two analyses of different tone, where heuristic items
\* were appended up to the cut and a word was kept in both of its spellings
C14_Witness ==
  /\ "r1" \in Reconciled
  /\ traditional["r1"].language_analysis.tone # ai_data["r1"].language_analysis.tone
  /\ Len(ai_data["r1"].language_analysis.bias_indicators) < 15
  /\ Len(analysis["r1"].language_analysis.bias_indicators) = 15
  /\ Len(traditional["r1"].language_analysis.persuasive_techniques) > 10
  /\ Occurs("shock", analysis["r1"].language_analysis.emotional_words)
  /\ Occurs("Shock", analysis["r1"].language_analysis.emotional_words)

AllEmpty(l) ==
  /\ l.bias_indicators = <<>> /\ l.loaded_language = <<>>
  /\ l.emotional_words = <<>> /\ l.persuasive_techniques = <<>>

\* C15: the reconciliation is a pure total function: it returns in one step
\* without raising and without waiting for I/O, leaves both of its inputs as
\* they were, and returns empty lists when the lists of both inputs are
\* empty.
C15_ReconciliationPure ==
  [][\A r \in Requests :
       (pc[r] = "an_merge" /\ pc'[r] # "an_merge") =>
         /\ pc'[r] \in {"an_questions", "returned"}
         /\ exc'[r] = exc[r]
         /\ traditional'[r] = traditional[r]
         /\ ai_data'[r] = ai_data[r]
         /\ AllClaims(r) = <<>> => analysis'[r].core_claims = <<>>
         /\ AllFlags(r) = <<>> => analysis'[r].red_flags = <<>>
         /\ (AllEmpty(traditional[r].language_analysis)
             /\ AllEmpty(ai_data[r].language_analysis))
              => AllEmpty(analysis'[r].language_analysis)]_vars

\* a reconciliation whose result differs from both of its inputs
C15_Witness ==
  /\ "r1" \in Reconciled
  /\ traditional["r1"].claims # <<>> /\ ai_data["r1"].core_claims # <<>>
  /\ analysis["r1"].core_claims # traditional["r1"].claims
  /\ analysis["r1"].core_claims # ai_data["r1"].core_claims

---------------------------------------------------------------------------
(* Properties of the AI provider call                                      *)

\* the request is inside _generate_with_retry
Generating(r) == pc[r] \in {"ai_try", "ai_sleep"}

\* C16: one provider call makes at most 3 generation attempts and always
\* ends; when the last attempt it makes returns nothing, or an attempt
\* returns text that cannot be parsed, the analysis ends in a failure, not in
\* another attempt.
C16_BoundedAttempts ==
  /\ [](\A r \in Requests :
          /\ generation[r].calls <= max_retries
          /\ Generating(r) => generation[r].calls < max_retries
          /\ (~Generating(r) /\ generation[r].text \in {"empty", "unparseable"}) =>
               /\ pc[r] \in {"an_except", "responded"}
               /\ exc[r].what \in {"ai_all_attempts_failed", "ai_unparseable"}
               /\ ~response[r].success)
  /\ <>[](\A r \in Requests : ~Generating(r))

\* three attempts returned nothing and the analysis failed
C16_Witness ==
  /\ generation["r1"].calls = max_retries /\ generation["r1"].text = "empty"
  /\ exc["r1"].what = "ai_all_attempts_failed"
  /\ response["r1"].sent /\ ~response["r1"].success

\* the step is one generation attempt of request r
Attempted(r) == generation'[r].calls = generation[r].calls + 1

\* C17: an attempt is followed by another one, after the backoff sleep, when
\* and only when it returned an empty or unparseable response and was not
\* the last attempt; an attempt that ended in a provider error is not
\* followed by another one.
C17_RetryOnBadResponseOnly ==
  [][\A r \in Requests :
       Attempted(r) =>
         /\ (generation'[r].text \in {"empty", "unparseable"}
               /\ generation'[r].calls < max_retries) => pc'[r] = "ai_sleep"
         /\ generation'[r].text = "error" => pc'[r] \notin {"ai_try", "ai_sleep"}]_vars

---------------------------------------------------------------------------
(* Properties of the analysis result                                       *)

\* a confidence in [0, 1]
InUnit(x) == 0 <= x /\ x <= OneConfidence

\* C18: the result of every success response has at most 8 core claims, 10
\* red flags, 8 verification questions and 15, 15, 15 and 10 items in the
\* four language lists, and every confidence, the quality score,
\* bias_confidence and overall_credibility lie in [0, 1], whatever the
\* provider answered.
C18_ResultWithinLimits ==
  \A r \in Requests :
    (response[r].sent /\ response[r].success) =>
      LET result == response[r].result IN
      /\ Len(result.core_claims) <= 8
      /\ Len(result.red_flags) <= 10
      /\ Len(result.verification_questions) <= 8
      /\ Len(result.language_analysis.bias_indicators) <= 15
      /\ Len(result.language_analysis.loaded_language) <= 15
      /\ Len(result.language_analysis.emotional_words) <= 15
      /\ Len(result.language_analysis.persuasive_techniques) <= 10
      /\ \A i \in 1..Len(result.core_claims) : InUnit(result.core_claims[i].confidence)
      /\ \A i \in 1..Len(result.red_flags) : InUnit(result.red_flags[i].confidence)
      /\ 0 <= result.article.quality_score /\ result.article.quality_score <= OneScore
      /\ InUnit(result.bias_confidence)
      /\ InUnit(result.overall_credibility)

\* the provider answered with lists longer than every cap and with scalars
\* at the ends of the range; the result is full
C18_Witness ==
  /\ response["r1"].sent /\ response["r1"].success
  /\ ai_data["r1"] = FullData
  /\ Len(response["r1"].result.core_claims) = 8
  /\ Len(response["r1"].result.red_flags) = 10
  /\ Len(response["r1"].result.verification_questions) = 8
  /\ Len(response["r1"].result.language_analysis.bias_indicators) = 15
  /\ Len(response["r1"].result.language_analysis.persuasive_techniques) = 10
  /\ response["r1"].result.bias_confidence = OneConfidence
  /\ response["r1"].result.overall_credibility = 0

---------------------------------------------------------------------------
(* Properties of the request sent to the AI provider                       *)

\* C19: the article content embedded in a request sent to the provider is
\* never longer than MAX_CONTENT_LENGTH.
C19_PromptContentBounded ==
  \A r \in Requests :
    generation[r].calls > 0 => generation[r].prompt <= MAX_CONTENT_LENGTH

---------------------------------------------------------------------------
(* Properties of the verification questions                                *)

\* the source-credibility question about the domain
AsksAboutSource(q, domain) ==
  q.category = "source" /\ q.question = <<"source_stance", <<domain>>>>

\* C20: whatever the claims, the entities, the content and the domain, the
\* list generate_verification_questions returns holds the source-credibility
\* question about the domain.
C20_SourceQuestionPresent ==
  \A r \in Requests :
    (entry[r] = "generate_verification_questions" /\ pc[r] = "returned") =>
      \E i \in 1..Len(analysis[r].verification_questions) :
        AsksAboutSource(analysis[r].verification_questions[i], article[r].domain)

---------------------------------------------------------------------------
(* Properties of the counter-narrative                                     *)

\* C21: the result of a successful analysis that asked for the
\* counter-narrative holds one with a non-empty opposing viewpoint; the
\* result of one that did not ask holds none.
C21_CounterNarrativeAsRequested ==
  \A r \in Requests :
    (response[r].sent /\ response[r].success) =>
      IF opts[r].counter
        THEN /\ response[r].result.counter_narrative.present
             /\ response[r].result.counter_narrative.opposing_viewpoint # ""
        ELSE response[r].result.counter_narrative = NoNarrative

\* no template matches the social framework: the generic text is used
C21_Witness ==
  /\ response["r1"].sent /\ response["r1"].success /\ opts["r1"].counter
  /\ response["r1"].result.counter_narrative.present
  /\ response["r1"].result.counter_narrative.opposing_viewpoint = "generic"

---------------------------------------------------------------------------
(* Properties of the entities                                              *)

\* the case-insensitive text of an entity
SameText(a, b) ==
  /\ Len(a.text) = Len(b.text)
  /\ \A i \in 1..Len(a.text) : Lower(a.text[i]) = Lower(b.text[i])

\* entities[k] is the earliest entity of the highest confidence among those
\* of its text
Winner(entities, k) ==
  \A j \in 1..Len(entities) :
    SameText(entities[j], entities[k]) =>
      \/ entities[j].confidence < entities[k].confidence
      \/ entities[j].confidence = entities[k].confidence /\ k <= j

\* C22: after _deduplicate_entities no two entities have the same
\* case-insensitive text, and the entity kept for a text is, field by field,
\* the earliest of the input entities of that text with the highest
\* confidence; every text of the input is kept.
C22_EntitiesDeduplicated ==
  [][\A r \in Requests :
       (pc[r] = "en_dedup" /\ pc'[r] = "returned") =>
         LET input == traditional[r].entities
             kept == traditional'[r].entities
         IN /\ \A i, j \in 1..Len(kept) : SameText(kept[i], kept[j]) => i = j
            /\ \A i \in 1..Len(kept) :
                 \E k \in 1..Len(input) : Winner(input, k) /\ kept[i] = input[k]
            /\ \A k \in 1..Len(input) :
                 \E i \in 1..Len(kept) : SameText(kept[i], input[k])]_vars

\* three entities of one name came back as one, spelled and placed as the
\* entity of the highest confidence was
C22_Witness ==
  /\ pc["r1"] = "returned" /\ entry["r1"] = "_deduplicate_entities"
  /\ traditional["r1"].entities = <<Mention(<<"acme">>, "ORG", 70, "s2")>>

---------------------------------------------------------------------------
(* Properties of the structural red flags                                  *)

\* an article of about 2000 characters with three "sources say", no
\* opposing-viewpoint indicator, one "45% increase" as its only statistic and
\* no comparative-context phrase
ScenarioA(content) ==
  /\ content.len \in 1990..2010
  /\ findall({"sources say"}, content) = 3
  /\ search(opposing_indicators, content) = 0
  /\ findall({"45% increase"}, content) = 1 /\ findall(number_patterns, content) = 1
  /\ search(context_patterns, content) = 0

HasFlag(flags, type, severities) ==
  \E i \in 1..Len(flags) : flags[i].type = type /\ flags[i].severity \in severities

\* C23: for every article of scenario A, detect_structural_bias returns a
\* source_bias flag of medium severity, a selection_bias flag of medium
\* severity and a statistical_misuse flag.
C23_ScenarioFlags ==
  \A r \in Requests :
    (pc[r] = "returned" /\ entry[r] = "detect_structural_bias") =>
      \A content \in heuristics.passage :
        ScenarioA(content) =>
          /\ HasFlag(traditional[r].red_flags, "source_bias", {"medium"})
          /\ HasFlag(traditional[r].red_flags, "selection_bias", {"medium"})
          /\ HasFlag(traditional[r].red_flags, "statistical_misuse", SeverityLevel)

---------------------------------------------------------------------------
(* Properties of the validator                                             *)

Scored(r) == pc[r] = "returned" /\ entry[r] = "calculate_content_quality"

\* the same paragraph breaks, sentence terminators and language
SameButLength(a, b) == [a EXCEPT !.len = 0] = [b EXCEPT !.len = 0]

\* C24: calculate_content_quality never exceeds 1.0, and of two contents of
\* at most 10,000 characters that differ in length only, scored with the
\* same title, the longer one does not score lower.
C24_QualityBoundedAndMonotone ==
  \A r, q \in Requests :
    (Scored(r) /\ Scored(q)) =>
      /\ article[r].quality_score <= OneScore
      /\ (/\ SameButLength(gate[r], gate[q])
          /\ Falsy(article[r].title) = Falsy(article[q].title)
          /\ gate[r].len <= gate[q].len /\ gate[q].len <= 10000)
         => article[r].quality_score <= article[q].quality_score

\* C26: is_article_content(T) is true exactly when T has at least 500
\* characters, at least 3 paragraph breaks, at least 5 sentence terminators
\* and no blocked phrase, the breaks and the terminators counted as
\* calculate_content_quality counts them (lines 52-58).
C26_ArticleIffStructure ==
  \A r \in Requests :
    (pc[r] = "returned" /\ entry[r] = "is_article_content") =>
      LET T == gate[r] IN
      ("is_article_content" \in passed[r]) <=>
        /\ T.len >= MIN_CONTENT_LENGTH
        /\ T.nn + T.nsn >= MIN_PARAGRAPHS
        /\ T.dots + T.marks >= MIN_SENTENCES
        /\ ~T.nonart

\* the statement of C26 with the breaks and the terminators that
\* is_article_content itself counts: "\n\n" and "."
ArticleIffOwnCounts ==
  \A r \in Requests :
    (pc[r] = "returned" /\ entry[r] = "is_article_content") =>
      LET T == gate[r] IN
      ("is_article_content" \in passed[r]) <=>
        (T.len >= MIN_CONTENT_LENGTH /\ T.nn >= MIN_PARAGRAPHS
         /\ T.dots >= MIN_SENTENCES /\ ~T.nonart)

---------------------------------------------------------------------------
(* Properties of the heuristic claim deduplication                         *)

NormalizedWords(claim) == WordSet(SimplifiedStripped(claim.claim))

\* the two claims share `n` normalized words of a union of 10
SharesOfTen(claims, n) ==
  /\ Len(claims) = 2
  /\ Cardinality(NormalizedWords(claims[1]) \cap NormalizedWords(claims[2])) = n
  /\ Cardinality(NormalizedWords(claims[1]) \cup NormalizedWords(claims[2])) = 10

\* C25: _deduplicate_claims keeps only the first of two claims that share 7
\* normalized words of a union of 10, and keeps both of two claims that
\* share 6 of 10.
C25_ThresholdInclusive ==
  [][\A r \in Requests :
       (pc[r] = "ce_dedup" /\ pc'[r] = "returned") =>
         LET claims == traditional[r].claims
             unique_claims == traditional'[r].claims
         IN /\ SharesOfTen(claims, 7) => unique_claims = <<claims[1]>>
            /\ SharesOfTen(claims, 6) => unique_claims = claims]_vars

\* the boundary the code has: 8 of 10 are duplicates, 7 of 10 and 6 of 10
\* are not
ThresholdExclusive ==
  [][\A r \in Requests :
       (pc[r] = "ce_dedup" /\ pc'[r] = "returned") =>
         LET claims == traditional[r].claims
             unique_claims == traditional'[r].claims
         IN /\ SharesOfTen(claims, 8) => unique_claims = <<claims[1]>>
            /\ SharesOfTen(claims, 7) => unique_claims = claims
            /\ SharesOfTen(claims, 6) => unique_claims = claims]_vars

---------------------------------------------------------------------------
(* Properties of the two passes of the bias detector                       *)

BothPassesRun(r) == pc[r] = "returned" /\ entry[r] = "detect_language_bias"

\* C27: two runs of detect_language_bias and detect_structural_bias on the
\* same text return the same tone, the same lists in the same order and
\* the same red flags.
C27_PassesDeterministic ==
  \A r, q \in Requests :
    (BothPassesRun(r) /\ BothPassesRun(q)) =>
      /\ traditional[r].language_analysis = traditional[q].language_analysis
      /\ traditional[r].red_flags = traditional[q].red_flags

\* what two runs do agree on: the tone, the lists built without set(), the
\* elements of the two lists built with set() when no cap is reached, and
\* the red flags
PassesAgreeUpToOrder ==
  \A r, q \in Requests :
    (BothPassesRun(r) /\ BothPassesRun(q)) =>
      LET a == traditional[r].language_analysis
          b == traditional[q].language_analysis
      IN /\ a.tone = b.tone
         /\ a.bias_indicators = b.bias_indicators
         /\ a.persuasive_techniques = b.persuasive_techniques
         /\ WordSet(a.loaded_language) = WordSet(b.loaded_language)
         /\ WordSet(a.emotional_words) = WordSet(b.emotional_words)
         /\ traditional[r].red_flags = traditional[q].red_flags

---------------------------------------------------------------------------
(* Properties of the fallback strategies                                   *)

\* C28: no ArticleContent that extract_content returns has the
\* extraction_method "beautifulsoup" or "simple_requests": their texts have
\* no paragraph break left and never pass is_article_content.
C28_FallbacksNeverAccepted ==
  \A r \in Requests :
    /\ passed[r] \cap {"beautifulsoup", "simple_requests"} = {}
    /\ pc[r] = "returned" =>
         article[r].extraction_method \notin {"beautifulsoup", "simple_requests"}

\* both fallbacks ran, beautifulsoup returned a text (it left its title
\* behind), and the article came from selenium, the strategy after them
C28_Witness ==
  /\ pc["r1"] = "returned"
  /\ article["r1"].extraction_method = "selenium"
  /\ article["r1"].title = Found("r1", "beautifulsoup")
  /\ Occurs("simple_requests", invoked["r1"])

---------------------------------------------------------------------------
(* Properties of calls that do not overlap                                 *)

\* the title, author and publish_date of r's article were found by a
\* strategy of r's own call, or are absent
OwnMetadata(r) ==
  \A field \in {article[r].title, article[r].author, article[r].publish_date} :
    field.req \in {NoReq, r}

OwnMetadataFirstAndThird ==
  \A r \in Requests :
    (pc[r] = "returned" /\ entry[r] # "extract_content (2)") => OwnMetadata(r)

---------------------------------------------------------------------------
(* Properties of the claim merge before its truncation                     *)

\* the merge kept fewer claims than the limit: nothing was cut off, and the
\* reconciled list holds every claim the loop kept
Untruncated(r) == r \in Reconciled /\ Len(analysis[r].core_claims) < MaxClaims

\* C30: in a merge that was not truncated, every claim of the concatenation
\* (heuristic claims first) is kept or is more than 0.6 similar to a kept
\* claim that comes earlier in the concatenation; every kept claim is an
\* input claim, and no two kept claims are more than 0.6 similar, so the
\* kept claims are fixed by the order of the input alone.
C30_DroppedOnlyAsNearDuplicate ==
  \A r \in Requests :
    Untruncated(r) =>
      LET out == analysis[r].core_claims
          all == AllClaims(r)
      IN /\ \A i \in 1..Len(all) :
              \/ Occurs(all[i], out)
              \/ \E j \in 1..(i - 1) : Occurs(all[j], out) /\ Jaccard06(all[j], all[i])
         /\ \A a \in 1..Len(out) : Occurs(out[a], all)
         /\ \A a, b \in 1..Len(out) : a # b => ~Jaccard06(out[a], out[b])

\* a chain: a claim was dropped as the near-duplicate of a kept claim, and a
\* later claim that is similar to the dropped one only was kept
C30_Witness ==
  /\ Untruncated("r1")
  /\ LET out == analysis["r1"].core_claims
         all == AllClaims("r1")
     IN \E j, i \in 1..Len(all) :
          /\ j < i
          /\ ~Occurs(all[j], out)
          /\ Jaccard06(all[j], all[i])
          /\ Occurs(all[i], out)
          /\ \A k \in 1..(i - 1) : all[k] # all[i]

====
